---- MODULE Spec2Model ----
(***************************************************************************)
(* Model of the subtitle batch-translation pipeline of                     *)
(* src/Workflow/example.py: the display (Tk) thread with its handlers, the *)
(* event queue work_q, the run driver thread _translate_worker, the pool   *)
(* workers running translate_one_batch, and the test-connection thread.    *)
(***************************************************************************)
EXTENDS Integers, Sequences, FiniteSets, TLC

(* ---------------------------- bounds ----------------------------------- *)
\* translate runs that may be started in one behaviour
MaxRuns == 2
\* test-connection threads that may be started in one behaviour
MaxTests == 1

RunIds == 1..MaxRuns
TestIds == 1..MaxTests

\* the translation the remote service writes after "index:" in a reply to a
\* request of run r: an opaque text, named after the run that asked for it
TextOf(r) == "t" \o ToString(r)
\* What the entry fields hold when a button is pressed: batch size,
\* concurrency, model, Base URL, API key, guide prompt (stripped).
Form(bs, cc, url, key, guide) ==
    [bs |-> bs, cc |-> cc, mid |-> "gemini-3-flash", base_url |-> url,
     api_key |-> key, guide |-> guide]
ValidForms == {Form(bs, cc, "http://host/v1", "sk", "guide") :
                  bs \in {"1"}, cc \in {"2"}}
\* one field wrong at a time: non-positive, non-integer, missing
InvalidForms ==
    {Form(bs, "1", "http://host/v1", "sk", "guide") : bs \in {"0", "abc"}}
    \cup {Form("1", cc, "http://host/v1", "sk", "guide") : cc \in {"0", "abc"}}
    \cup {Form("1", "1", "", "sk", "guide"), Form("1", "1", "http://host/v1", "", "guide"),
          Form("1", "1", "http://host/v1", "sk", "")}
Forms == ValidForms \cup InvalidForms

VARIABLES
    items,          \* self.items: list of {"index","time","src","tr"}
    tree,           \* self.tree rows: (Index, Source, Translation)
    work_q,         \* self.work_q: FIFO queue of event dicts
    stop_flag,      \* self.stop_flag: threading.Event
    worker_thread,  \* self.worker_thread: 0 is None, else the run's thread
    polling,        \* the display thread is inside _poll_queue's loop
    run,            \* one _translate_worker thread per started run
    nruns,          \* runs started so far
    test,           \* one _test thread per test-connection request
    ntests,         \* test threads started so far
    input_text,     \* self.input_text: the input box, a sequence of blocks
    input_format,   \* self.input_format: "none", "srt" or "tsv"
    srt_file,       \* the entries of the file on_export_srt wrote last
    proxy_history   \* KiotProxyApp.proxy_history (src/proxy.py)

vars == <<items, tree, work_q, stop_flag, worker_thread, polling, run, nruns,
          test, ntests, input_text, input_format, srt_file, proxy_history>>

(* ------------------------- pure functions ------------------------------ *)

Min(a, b) == IF a < b THEN a ELSE b

\* the dict {} of parse_model_output
EmptyMapping == [i \in {} |-> ""]

\* int(s.strip()) of the entry fields: -1 stands for ValueError
IntOf(s) == CASE s = "0" -> 0 [] s = "1" -> 1 [] s = "2" -> 2 [] OTHER -> -1

IsInt(s) == s \in {"0", "1", "2"}

\* it.get("tr", "").strip() is empty
IsBlank(s) == s \in {"", " "}

RECURSIVE InsertByIndex(_, _)
InsertByIndex(sorted, it) ==
    IF sorted = <<>> THEN <<it>>
    ELSE IF Head(sorted).index <= it.index
         THEN <<Head(sorted)>> \o InsertByIndex(Tail(sorted), it)
         ELSE <<it>> \o sorted

RECURSIVE SortByIndexRev(_)
SortByIndexRev(s) ==
    IF s = <<>> THEN <<>>
    ELSE InsertByIndex(SortByIndexRev(SubSeq(s, 1, Len(s) - 1)), s[Len(s)])

\* list.sort(key=lambda x: x["index"]): stable, ascending
SortByIndex(s) == SortByIndexRev(s)

\* pending = [it for it in self.items if not it.get("tr", "").strip()]
SelectPending(its) == SelectSeq(its, LAMBDA it : IsBlank(it.tr))

\* faulty variant of Partition: the batch count is rounded down, so a last,
\* smaller batch is lost
PartitionDropsTail(pending, batch_size) ==
    LET n == Len(pending) \div batch_size
    IN  [k \in 1..n |->
            SubSeq(pending, (k - 1) * batch_size + 1, k * batch_size)]

\* for start in range(0, len(pending), batch_size): pending[start:start+batch_size]
Partition(pending, batch_size) ==
    LET n == (Len(pending) + batch_size - 1) \div batch_size
    IN  [k \in 1..n |->
            SubSeq(pending, (k - 1) * batch_size + 1,
                   Min(k * batch_size, Len(pending)))]

\* build_user_payload: one line "index<TAB>src" per unit after the boilerplate
build_user_payload(batch_items, guide_prompt) ==
    [head |-> "DANH SACH CAN DICH:",
     lines |-> [k \in 1..Len(batch_items) |->
                   [idx |-> batch_items[k].index, src |-> batch_items[k].src]]]

\* A reply is a sequence of lines; a line is "pair" (matches ^(\d+)\s*:\s*(.*)$),
\* "junk" (does not match) or "blank".
PairLine(i, t) == [k |-> "pair", idx |-> i, text |-> t]
JunkLine == [k |-> "junk", idx |-> 0, text |-> "sorry"]

RECURSIVE parse_lines(_, _)
parse_lines(lines, mapping) ==
    IF lines = <<>> THEN mapping
    ELSE LET ln == Head(lines)
             m2 == IF ln.k = "pair"
                   THEN [i \in DOMAIN mapping \cup {ln.idx} |->
                            IF i = ln.idx THEN ln.text ELSE mapping[i]]
                   ELSE mapping
         IN  parse_lines(Tail(lines), m2)

\* parse_model_output: lines that match fill the dict, the others are ignored
parse_model_output(output) == parse_lines(output, EmptyMapping)

\* the replies the remote service may give to one request of run r: every
\* line of the request answered as "index: text", or text with no line of the
\* reply grammar
EchoReply(payload, t) ==
    [k \in 1..Len(payload.lines) |-> PairLine(payload.lines[k].idx, t)]
Replies(payload, r) == {EchoReply(payload, TextOf(r)), <<JunkLine>>}

\* position of the item the dict idx_to_item holds for its index: the last one
HoldsIndex(its, k) == \A j \in (k + 1)..Len(its) : its[j].index # its[k].index

LastRow(rows, idx) ==
    LET S == {j \in 1..Len(rows) : rows[j].Index = idx}
    IN  CHOOSE j \in S : \A j2 \in S : j2 <= j

\* _sync_table_to_items: pull the Translation column back into self.items
SyncTableToItems(its, rows) ==
    [k \in 1..Len(its) |->
        IF HoldsIndex(its, k) /\ \E j \in 1..Len(rows) : rows[j].Index = its[k].index
        THEN [its[k] EXCEPT !.tr = rows[LastRow(rows, its[k].index)].Translation]
        ELSE its[k]]

\* faulty variant of ApplyToItems: a unit the mapping does not name loses its
\* translation
ApplyToItemsResetting(its, mapping) ==
    [k \in 1..Len(its) |->
        IF HoldsIndex(its, k) /\ its[k].index \in DOMAIN mapping
        THEN [its[k] EXCEPT !.tr = mapping[its[k].index]]
        ELSE [its[k] EXCEPT !.tr = ""]]

\* faulty variant of ApplyToItems: the units named by the mapping are the
\* only ones kept
ApplyToItemsDropping(its, mapping) ==
    SelectSeq([k \in 1..Len(its) |->
                  IF HoldsIndex(its, k) /\ its[k].index \in DOMAIN mapping
                  THEN [its[k] EXCEPT !.tr = mapping[its[k].index]]
                  ELSE its[k]],
              LAMBDA it : it.index \in DOMAIN mapping)

\* _apply_translation_mapping, the items half
ApplyToItems(its, mapping) ==
    [k \in 1..Len(its) |->
        IF HoldsIndex(its, k) /\ its[k].index \in DOMAIN mapping
        THEN [its[k] EXCEPT !.tr = mapping[its[k].index]]
        ELSE its[k]]

\* _apply_translation_mapping, the table half
ApplyToTree(rows, mapping) ==
    [k \in 1..Len(rows) |->
        IF rows[k].Index \in DOMAIN mapping
        THEN [rows[k] EXCEPT !.Translation = mapping[rows[k].Index]]
        ELSE rows[k]]

\* _refresh_table
RefreshTable(its) ==
    [k \in 1..Len(its) |->
        [Index |-> its[k].index, Source |-> its[k].src, Translation |-> its[k].tr]]

(* ----------------------- parsing pasted subtitles ---------------------- *)
\* A text is a sequence of blocks separated by blank lines, a block a sequence
\* of non-empty lines. A line is digits only ("num"), contains "-->" with the
\* comma of SRT time stamps ("time"), is digits, a tab and text ("tab"), or is
\* text without tab or comma ("text"). Field line is the whole line, field s
\* what parse_tsv_like keeps of it as source text.
\* Field arrow tells whether the line contains "-->".
ArrowTexts == {"a --> b"}
NumLine(n) ==
    [k |-> "num", n |-> n, s |-> ToString(n), line |-> ToString(n), arrow |-> FALSE]
TimeLine ==
    [k |-> "time", n |-> 0, s |-> "00:00:01,000 --> 00:00:02,000",
     line |-> "00:00:01,000 --> 00:00:02,000", arrow |-> TRUE]
TabLine(n, t) ==
    [k |-> "tab", n |-> n, s |-> t, line |-> ToString(n) \o "\t" \o t,
     arrow |-> t \in ArrowTexts]
TextLine(t) == [k |-> "text", n |-> 0, s |-> t, line |-> t, arrow |-> t \in ArrowTexts]

\* " ".join(ln.strip() for ln in src_lines)
RECURSIVE JoinLines(_)
JoinLines(lines) ==
    IF lines = <<>> THEN ""
    ELSE IF Len(lines) = 1 THEN lines[1].line
    ELSE lines[1].line \o " " \o JoinLines(Tail(lines))

\* faulty variant of ParseSrtBlock: a block without index line is dropped
ParseSrtBlockNeedsIndex(acc, lines) ==
    IF Len(lines) < 3 \/ lines[1].k # "num" \/ ~lines[2].arrow THEN acc
    ELSE Append(acc, [index |-> lines[1].n, time |-> lines[2].line,
                      src |-> JoinLines(SubSeq(lines, 3, Len(lines))), tr |-> ""])

\* faulty variant of ParseSrtBlock: the time line is looked for in every line
\* of the block
ParseSrtBlockAnyTimeLine(acc, lines) ==
    IF Len(lines) < 2 THEN acc
    ELSE LET hasIdx == lines[1].k = "num"
             first == IF hasIdx THEN 2 ELSE 1
             cand == {i \in first..Len(lines) : lines[i].arrow}
         IN  IF cand = {} THEN acc
             ELSE LET t == CHOOSE i \in cand : \A i2 \in cand : i <= i2
                  IN  Append(acc,
                             [index |-> IF hasIdx THEN lines[1].n ELSE Len(acc) + 1,
                              time |-> lines[t].line,
                              src |-> JoinLines(SubSeq(lines, t + 1, Len(lines))),
                              tr |-> ""])

\* parse_srt, one block: lines 53-84
ParseSrtBlock(acc, lines) ==
    IF Len(lines) < 2 THEN acc
    ELSE LET hasIdx == lines[1].k = "num"
             first == IF hasIdx THEN 2 ELSE 1
             cand == {i \in first..Min(first + 1, Len(lines)) : lines[i].arrow}
         IN  IF cand = {} THEN acc
             ELSE LET t == CHOOSE i \in cand : \A i2 \in cand : i <= i2
                  IN  Append(acc,
                             [index |-> IF hasIdx THEN lines[1].n ELSE Len(acc) + 1,
                              time |-> lines[t].line,
                              src |-> JoinLines(SubSeq(lines, t + 1, Len(lines))),
                              tr |-> ""])

RECURSIVE ParseSrtBlocks(_, _)
ParseSrtBlocks(acc, blocks) ==
    IF blocks = <<>> THEN acc
    ELSE ParseSrtBlocks(ParseSrtBlock(acc, Head(blocks)), Tail(blocks))

\* parse_srt
parse_srt(text) == ParseSrtBlocks(<<>>, text)

\* the non-empty lines of a text
RECURSIVE LinesOf(_)
LinesOf(text) == IF text = <<>> THEN <<>> ELSE Head(text) \o LinesOf(Tail(text))

\* faulty variant of parse_tsv_like: every line gets the running auto_index
parse_tsv_likeAutoOnly(text) ==
    LET lines == LinesOf(text)
    IN  [k \in 1..Len(lines) |->
            [index |-> k, time |-> "", src |-> lines[k].s, tr |-> ""]]

\* faulty variant of ParseTsvLines: auto_index counts the unlabeled lines only
RECURSIVE ParseTsvLinesCountingUnlabeled(_, _, _)
ParseTsvLinesCountingUnlabeled(acc, auto_index, lines) ==
    IF lines = <<>> THEN acc
    ELSE LET ln == Head(lines)
         IN  ParseTsvLinesCountingUnlabeled(
                 Append(acc, [index |-> IF ln.k = "tab" THEN ln.n ELSE auto_index,
                              time |-> "", src |-> ln.s, tr |-> ""]),
                 IF ln.k = "tab" THEN auto_index ELSE auto_index + 1,
                 Tail(lines))

\* the loop of parse_tsv_like (103-125): a line "digits<TAB>text" carries its
\* own index, any other line gets auto_index; auto_index grows with every line
RECURSIVE ParseTsvLines(_, _, _)
ParseTsvLines(acc, auto_index, lines) ==
    IF lines = <<>> THEN acc
    ELSE LET ln == Head(lines)
         IN  ParseTsvLines(
                 Append(acc, [index |-> IF ln.k = "tab" THEN ln.n ELSE auto_index,
                              time |-> "", src |-> ln.s, tr |-> ""]),
                 auto_index + 1,
                 Tail(lines))

\* parse_tsv_like
parse_tsv_like(text) == ParseTsvLines(<<>>, 1, LinesOf(text))

\* detect_and_parse_subtitles
detect_and_parse_subtitles(text) ==
    LET lines == LinesOf(text)
    IN  IF (\E k \in 1..Len(lines) : lines[k].arrow) /\ parse_srt(text) # <<>>
        THEN parse_srt(text)
        ELSE parse_tsv_like(text)

\* the format tag detect_and_parse_subtitles returns with the units
detected_format(text) ==
    LET lines == LinesOf(text)
    IN  IF (\E k \in 1..Len(lines) : lines[k].arrow) /\ parse_srt(text) # <<>>
        THEN "srt"
        ELSE "tsv"

\* the two unlabeled lines Hello, World
LoadedText == << <<TextLine("Hello"), TextLine("World")>> >>

\* the UnitSet after "Parse -> table" of the two unlabeled lines Hello, World
LoadedItems ==
    << [index |-> 1, time |-> "", src |-> "Hello", tr |-> ""],
       [index |-> 2, time |-> "", src |-> "World", tr |-> ""] >>

\* the batches a run can have: at most one per unit
BatchIds == 1..Len(LoadedItems)

(* ------------------------------ events --------------------------------- *)

\* what an event remembers for the properties (history only, no handler reads
\* it). A terminal event: the unit indices of the merges its run emitted, and
\* of those it had emitted when a stop request set the flag. A merge event:
\* whether the call of its batch was in flight when a stop request set the
\* flag, and the unit indices its batch's request carried. A terminal event:
\* prev, the status or log message its thread put right before it, and log,
\* the last log message its thread put before it in the same stretch of code
NoHist ==
    [merged |-> {}, preStop |-> {}, atStop |-> FALSE, sent |-> {}, prev |-> "",
     log |-> ""]

\* an event dict of work_q; run is the producing run (0: a test thread);
\* c and t are the completed/total batch counts a progress message carries
Ev(kind, r, msg, mapping, raw, c, t) ==
    [kind |-> kind, run |-> r, msg |-> msg, mapping |-> mapping, raw |-> raw,
     c |-> c, t |-> t, hist |-> NoHist]
StatusEv(r, msg) == Ev("status", r, msg, EmptyMapping, <<>>, 0, 0)
LogEv(r, msg) == Ev("log", r, msg, EmptyMapping, <<>>, 0, 0)
RawLogEv(r, raw) == Ev("log", r, "raw", EmptyMapping, raw, 0, 0)
UpdateEv(r, mapping) == Ev("update_translations", r, "", mapping, <<>>, 0, 0)
DoneEv(r) == Ev("done", r, "", EmptyMapping, <<>>, 0, 0)
ErrorEv(r, msg) == Ev("error", r, msg, EmptyMapping, <<>>, 0, 0)

IsTerminal(e) == e.kind \in {"done", "error"}

\* _poll_queue handles a status or log event by set_status / log alone, which
\* change the status label and the log widget and nothing the pipeline reads.
\* work_q therefore carries the events whose handling changes the state; the
\* emission of the others is recorded in the history of the run (Emitted).
LastLog(evs, k) ==
    LET L == {j \in 1..(k - 1) : evs[j].kind = "log"}
    IN  IF L = {} THEN "" ELSE evs[CHOOSE j \in L : \A j2 \in L : j2 <= j].msg

Linked(evs) ==
    [k \in 1..Len(evs) |->
        IF k > 1 /\ IsTerminal(evs[k]) /\ evs[k - 1].kind \in {"status", "log"}
        THEN [evs[k] EXCEPT !.hist.prev = evs[k - 1].msg,
                            !.hist.log = LastLog(evs, k)]
        ELSE evs[k]]

Put(q, evs) == q \o SelectSeq(Linked(evs), LAMBDA e : e.kind \notin {"status", "log"})

(* ------------------------------ threads -------------------------------- *)

QueuedFuture ==
    [st |-> "queued", skipped |-> FALSE, exc |-> FALSE, mapping |-> EmptyMapping,
     raw |-> <<>>, range |-> <<>>, payload |-> <<>>, consumed |-> FALSE,
     \* history: remote calls made for the batch; the call was in flight when
     \* a stop request set the flag
     calls |-> 0, atStop |-> FALSE]

\* a future whose result the driver has taken
ConsumedFuture(f) ==
    [QueuedFuture EXCEPT !.st = "done", !.consumed = TRUE, !.skipped = f.skipped,
                         !.exc = f.exc, !.mapping = f.mapping, !.calls = f.calls]

IdleRun ==
    [pc |-> "idle", batch_size |-> 0, concurrency |-> 0, model_id |-> "",
     guide |-> "", batches |-> <<>>, fut |-> <<>>, completed |-> 0, err |-> "",
     \* history of the run, read by the properties only
     terms |-> 0, term |-> "none", late |-> FALSE, merged |-> {},
     preStop |-> {}, rawLog |-> FALSE, bad |-> 0]

\* threading.Thread.is_alive()
is_alive(r) == run[r].pc \notin {"idle", "dead"}

RECURSIVE CountTerminal(_)
CountTerminal(evs) ==
    IF evs = <<>> THEN 0
    ELSE (IF IsTerminal(Head(evs)) THEN 1 ELSE 0) + CountTerminal(Tail(evs))

\* the run record after the run has put evs on work_q (history fields)
Emitted(rec, evs) ==
    LET n == CountTerminal(evs)
        last == evs[Len(evs)]
    IN  [rec EXCEPT
           !.late = rec.late \/ (rec.terms > 0 /\ evs # <<>>)
                    \/ (n > 0 /\ ~IsTerminal(last)) \/ n > 1,
           !.terms = rec.terms + n,
           !.term = IF n > 0 THEN last.kind ELSE rec.term]

\* the terminal event e of a run whose record is rec, with the run's history
WithHist(e, rec) ==
    [e EXCEPT !.hist = [merged |-> rec.merged, preStop |-> rec.preStop,
                        atStop |-> FALSE, sent |-> {}, prev |-> "", log |-> ""]]

\* the application after construction and "Parse -> table": the units loaded
\* and shown, the queue empty, no thread started
Init ==
    /\ items = LoadedItems
    /\ tree = RefreshTable(LoadedItems)
    /\ work_q = <<>>
    /\ stop_flag = FALSE
    /\ worker_thread = 0
    /\ polling = FALSE
    /\ run = [r \in RunIds |-> IdleRun]
    /\ nruns = 0
    /\ test = [t \in TestIds |-> "idle"]
    /\ ntests = 0
    /\ input_text = LoadedText
    /\ input_format = "tsv"
    /\ srt_file = <<>>
    /\ proxy_history = <<>>

(* ------------------------- display thread ------------------------------ *)

\* on_translate: reject, or sync the table, validate and start a run
on_translate(f) ==
    /\ ~polling
    /\ IF items = <<>> \/ (worker_thread # 0 /\ is_alive(worker_thread))
       THEN UNCHANGED vars
       ELSE IF \/ ~IsInt(f.bs) \/ IntOf(f.bs) <= 0
               \/ ~IsInt(f.cc) \/ IntOf(f.cc) <= 0
               \/ f.base_url = "" \/ f.api_key = "" \/ f.guide = ""
            THEN /\ items' = SyncTableToItems(items, tree)
                 /\ UNCHANGED <<tree, work_q, stop_flag, worker_thread, polling,
                                run, nruns, test, ntests>>
            ELSE /\ nruns < MaxRuns
                 /\ items' = SyncTableToItems(items, tree)
                 /\ stop_flag' = FALSE
                 /\ nruns' = nruns + 1
                 /\ worker_thread' = nruns + 1
                 /\ run' = [run EXCEPT ![nruns + 1] =
                              [IdleRun EXCEPT !.pc = "start",
                                              !.batch_size = IntOf(f.bs),
                                              !.concurrency = IntOf(f.cc),
                                              !.model_id = f.mid,
                                              !.guide = f.guide]]
                 /\ UNCHANGED <<tree, work_q, polling, test, ntests>>
    /\ UNCHANGED <<input_text, input_format, srt_file, proxy_history>>

\* futures of run r whose remote call is in flight
InFlight(r) == {b \in 1..Len(run[r].fut) : run[r].fut[b].st = "inflight"}

\* on_stop: set the flag when the thread handle is alive
on_stop ==
    /\ ~polling
    /\ IF worker_thread # 0 /\ is_alive(worker_thread)
       THEN /\ stop_flag' = TRUE
            /\ run' = [r \in RunIds |->
                         IF is_alive(r) /\ run[r].terms = 0
                         THEN [run[r] EXCEPT
                                 !.preStop = IF stop_flag THEN @
                                             ELSE run[r].merged,
                                 !.fut = [b \in DOMAIN @ |->
                                            IF @[b].st = "inflight" /\ ~stop_flag
                                            THEN [@[b] EXCEPT !.atStop = TRUE]
                                            ELSE @[b]]]
                         ELSE run[r]]
       ELSE UNCHANGED <<stop_flag, run>>
    /\ UNCHANGED <<items, tree, work_q, worker_thread, polling, nruns, test, ntests>>
    /\ UNCHANGED <<input_text, input_format, srt_file, proxy_history>>

\* on_test_connection: validate, then start the _test thread
on_test_connection(f) ==
    /\ ~polling
    /\ IF f.base_url = "" \/ f.api_key = ""
       THEN UNCHANGED vars
       ELSE /\ ntests < MaxTests
            /\ ntests' = ntests + 1
            /\ test' = [test EXCEPT ![ntests + 1] = "calling"]
            /\ UNCHANGED <<items, tree, work_q, stop_flag, worker_thread, polling,
                           run, nruns>>
    /\ UNCHANGED <<input_text, input_format, srt_file, proxy_history>>

\* faulty variant of PollGet: the newest event is taken instead of the oldest
PollGetLifo ==
    /\ work_q # <<>>
    /\ LET item == work_q[Len(work_q)] IN
       /\ work_q' = SubSeq(work_q, 1, Len(work_q) - 1)
       /\ polling' = TRUE
       /\ IF item.kind = "update_translations"
          THEN /\ items' = ApplyToItems(items, item.mapping)
               /\ tree' = ApplyToTree(tree, item.mapping)
               /\ UNCHANGED <<worker_thread, stop_flag>>
          ELSE IF item.kind \in {"done", "error"}
               THEN /\ worker_thread' = 0
                    /\ stop_flag' = FALSE
                    /\ UNCHANGED <<items, tree>>
               ELSE UNCHANGED <<items, tree, worker_thread, stop_flag>>
    /\ UNCHANGED <<run, nruns, test, ntests>>
    /\ UNCHANGED <<input_text, input_format, srt_file, proxy_history>>

\* _poll_queue, one turn of its loop: get_nowait() returned an event
PollGet ==
    /\ work_q # <<>>
    /\ LET item == Head(work_q) IN
       /\ work_q' = Tail(work_q)
       /\ polling' = TRUE
       /\ IF item.kind = "update_translations"
          THEN /\ items' = ApplyToItems(items, item.mapping)
               /\ tree' = ApplyToTree(tree, item.mapping)
               /\ UNCHANGED <<worker_thread, stop_flag>>
          ELSE IF item.kind \in {"done", "error"}
               THEN /\ worker_thread' = 0
                    /\ stop_flag' = FALSE
                    /\ UNCHANGED <<items, tree>>
               ELSE UNCHANGED <<items, tree, worker_thread, stop_flag>>
    /\ UNCHANGED <<run, nruns, test, ntests>>
    /\ UNCHANGED <<input_text, input_format, srt_file, proxy_history>>

\* _poll_queue: get_nowait() raised queue.Empty, the loop ends
PollEmpty ==
    /\ polling
    /\ work_q = <<>>
    /\ polling' = FALSE
    /\ UNCHANGED <<items, tree, work_q, stop_flag, worker_thread, run, nruns,
                   test, ntests>>
    /\ UNCHANGED <<input_text, input_format, srt_file, proxy_history>>

(* ----------------------- test-connection thread ------------------------ *)

\* _test, the ping returned: the "testing" status, then the log and "Ready."
TestOk(t) ==
    /\ test[t] = "calling"
    /\ work_q' = Put(work_q, <<StatusEv(0, "testing"), LogEv(0, "Test OK"),
                               StatusEv(0, "Ready.")>>)
    /\ test' = [test EXCEPT ![t] = "dead"]
    /\ UNCHANGED <<items, tree, stop_flag, worker_thread, polling, run, nruns, ntests>>
    /\ UNCHANGED <<input_text, input_format, srt_file, proxy_history>>

\* _test, the ping raised: the "testing" status, then the error event
TestFail(t) ==
    /\ test[t] = "calling"
    /\ work_q' = Put(work_q, <<StatusEv(0, "testing"), ErrorEv(0, "test failed")>>)
    /\ test' = [test EXCEPT ![t] = "dead"]
    /\ UNCHANGED <<items, tree, stop_flag, worker_thread, polling, run, nruns, ntests>>
    /\ UNCHANGED <<input_text, input_format, srt_file, proxy_history>>

(* ------------------- run driver: _translate_worker --------------------- *)

IsImageModel(mid) == mid = "gemini-3-pro-image"

\* faulty variant of DriverStart: every unit is taken as pending
DriverStartAll(r) ==
    /\ run[r].pc = "start"
    /\ LET me == run[r]
           evs == <<StatusEv(r, "start"), LogEv(r, "model"),
                    Ev("log", r, "total", EmptyMapping, <<>>, 0, 0)>>
           units == SortByIndex(items)
           batches == Partition([k \in 1..Len(units) |->
                                    [index |-> units[k].index, src |-> units[k].src]],
                                me.batch_size)
       IN  /\ work_q' = Put(work_q, evs)
           /\ run' = [run EXCEPT ![r] =
                        [Emitted(me, evs) EXCEPT
                           !.pc = "loop",
                           !.batches = batches,
                           !.fut = [b \in 1..Len(batches) |-> QueuedFuture]]]
    /\ UNCHANGED <<items, tree, stop_flag, worker_thread, polling, nruns, test, ntests>>
    /\ UNCHANGED <<input_text, input_format, srt_file, proxy_history>>

\* faulty variant of DriverStart: done is put without the log "nothing to do"
DriverStartNoLog(r) ==
    /\ run[r].pc = "start"
    /\ LET me == run[r]
           evs0 == (IF IsImageModel(me.model_id)
                    THEN <<LogEv(r, "image model")>> ELSE <<>>)
                   \o <<StatusEv(r, "start"), LogEv(r, "model")>>
           pending == SelectPending(items)
           units == SortByIndex(pending)
           batches == Partition([k \in 1..Len(units) |->
                                    [index |-> units[k].index, src |-> units[k].src]],
                                me.batch_size)
       IN  IF pending = <<>>
           THEN LET evs == evs0 \o <<WithHist(DoneEv(r), me)>> IN
                /\ work_q' = Put(work_q, evs)
                /\ run' = [run EXCEPT ![r] = [Emitted(me, evs) EXCEPT !.pc = "exit"]]
           ELSE LET evs == evs0 \o <<Ev("log", r, "total", EmptyMapping, <<>>, 0,
                                       Len(batches))>> IN
                /\ work_q' = Put(work_q, evs)
                /\ run' = [run EXCEPT ![r] =
                             [Emitted(me, evs) EXCEPT
                                !.pc = "loop",
                                !.batches = batches,
                                !.fut = [b \in 1..Len(batches) |-> QueuedFuture]]]
    /\ UNCHANGED <<items, tree, stop_flag, worker_thread, polling, nruns, test, ntests>>
    /\ UNCHANGED <<input_text, input_format, srt_file, proxy_history>>

\* lines 580-604 and the submit of line 639
DriverStart(r) ==
    /\ run[r].pc = "start"
    /\ LET me == run[r]
           evs0 == (IF IsImageModel(me.model_id)
                    THEN <<LogEv(r, "image model")>> ELSE <<>>)
                   \o <<StatusEv(r, "start"), LogEv(r, "model")>>
           pending == SelectPending(items)
           units == SortByIndex(pending)
           batches == Partition([k \in 1..Len(units) |->
                                    [index |-> units[k].index, src |-> units[k].src]],
                                me.batch_size)
       IN  IF pending = <<>>
           THEN LET evs == evs0 \o <<LogEv(r, "nothing to do"),
                                     WithHist(DoneEv(r), me)>> IN
                /\ work_q' = Put(work_q, evs)
                /\ run' = [run EXCEPT ![r] = [Emitted(me, evs) EXCEPT !.pc = "exit"]]
           ELSE LET evs == evs0 \o <<Ev("log", r, "total", EmptyMapping, <<>>, 0,
                                       Len(batches))>> IN
                /\ work_q' = Put(work_q, evs)
                /\ run' = [run EXCEPT ![r] =
                             [Emitted(me, evs) EXCEPT
                                !.pc = "loop",
                                !.batches = batches,
                                !.fut = [b \in 1..Len(batches) |-> QueuedFuture]]]
    /\ UNCHANGED <<items, tree, stop_flag, worker_thread, polling, nruns, test, ntests>>
    /\ UNCHANGED <<input_text, input_format, srt_file, proxy_history>>

Queued(r) == {b \in 1..Len(run[r].fut) : run[r].fut[b].st = "queued"}

\* faulty variant of PickUp: after a stop request no worker takes a batch
PickUpStalledByStop(r) ==
    /\ run[r].pc \in {"loop", "abort"}
    /\ Queued(r) # {}
    /\ Cardinality(InFlight(r)) < run[r].concurrency
    /\ ~stop_flag
    /\ LET b == CHOOSE x \in Queued(r) : \A y \in Queued(r) : x <= y
           me == run[r]
       IN  run' = [run EXCEPT ![r].fut[b] =
                     [@ EXCEPT !.st = "inflight",
                               !.payload = build_user_payload(me.batches[b], me.guide),
                               !.calls = @ + 1]]
    /\ UNCHANGED <<items, tree, work_q, stop_flag, worker_thread, polling, nruns,
                   test, ntests>>
    /\ UNCHANGED <<input_text, input_format, srt_file, proxy_history>>

\* faulty variant of PickUp: a worker is found for every queued batch
PickUpUnbounded(r) ==
    /\ run[r].pc \in {"loop", "abort"}
    /\ Queued(r) # {}
    /\ LET b == CHOOSE x \in Queued(r) : \A y \in Queued(r) : x <= y
           me == run[r]
       IN  IF stop_flag
           THEN run' = [run EXCEPT ![r].fut[b] =
                          [@ EXCEPT !.st = "done", !.skipped = TRUE]]
           ELSE run' = [run EXCEPT ![r].fut[b] =
                          [@ EXCEPT !.st = "inflight",
                                    !.payload = build_user_payload(me.batches[b],
                                                                   me.guide),
                                    !.calls = @ + 1]]
    /\ UNCHANGED <<items, tree, work_q, stop_flag, worker_thread, polling, nruns,
                   test, ntests>>
    /\ UNCHANGED <<input_text, input_format, srt_file, proxy_history>>

\* faulty variant of PickUp: the worker does not look at the stop flag
PickUpIgnoringStop(r) ==
    /\ run[r].pc \in {"loop", "abort"}
    /\ Queued(r) # {}
    /\ Cardinality(InFlight(r)) < run[r].concurrency
    /\ LET b == CHOOSE x \in Queued(r) : \A y \in Queued(r) : x <= y
           me == run[r]
       IN  run' = [run EXCEPT ![r].fut[b] =
                     [@ EXCEPT !.st = "inflight",
                               !.payload = build_user_payload(me.batches[b], me.guide),
                               !.calls = @ + 1]]
    /\ UNCHANGED <<items, tree, work_q, stop_flag, worker_thread, polling, nruns,
                   test, ntests>>
    /\ UNCHANGED <<input_text, input_format, srt_file, proxy_history>>

\* a pool worker takes the next work item and runs translate_one_batch up to
\* the remote call (lines 607-624)
PickUp(r) ==
    /\ run[r].pc \in {"loop", "abort"}
    /\ Queued(r) # {}
    /\ Cardinality(InFlight(r)) < run[r].concurrency
    /\ LET b == CHOOSE x \in Queued(r) : \A y \in Queued(r) : x <= y
           me == run[r]
       IN  IF stop_flag
           THEN run' = [run EXCEPT ![r].fut[b] =
                          [@ EXCEPT !.st = "done", !.skipped = TRUE]]
           ELSE run' = [run EXCEPT ![r].fut[b] =
                          [@ EXCEPT !.st = "inflight",
                                    !.payload = build_user_payload(me.batches[b],
                                                                   me.guide),
                                    !.calls = @ + 1]]
    /\ UNCHANGED <<items, tree, work_q, stop_flag, worker_thread, polling, nruns,
                   test, ntests>>
    /\ UNCHANGED <<input_text, input_format, srt_file, proxy_history>>

\* the remote call returns a reply: lines 626-633
CallReturn(r, b) ==
    /\ b \in DOMAIN run[r].fut
    /\ run[r].fut[b].st = "inflight"
    /\ \E reply \in Replies(run[r].fut[b].payload, r) :
          run' = [run EXCEPT ![r].fut[b] =
                    [@ EXCEPT !.st = "done",
                              !.mapping = parse_model_output(reply),
                              !.raw = reply,
                              !.range = <<run[r].batches[b][1].index,
                                          run[r].batches[b][Len(run[r].batches[b])].index>>]]
    /\ UNCHANGED <<items, tree, work_q, stop_flag, worker_thread, polling, nruns,
                   test, ntests>>
    /\ UNCHANGED <<input_text, input_format, srt_file, proxy_history>>

\* the remote call returns a reply that answers every line of the request and
\* carries one more "index: text" line, for a unit of the table that the
\* request did not send
CallReturnStray(r, b) ==
    /\ b \in DOMAIN run[r].fut
    /\ run[r].fut[b].st = "inflight"
    /\ LET payload == run[r].fut[b].payload
           asked == {payload.lines[k].idx : k \in 1..Len(payload.lines)}
       IN  \E j \in {items[k].index : k \in 1..Len(items)} \ asked :
              LET reply == EchoReply(payload, TextOf(r)) \o <<PairLine(j, "stray")>>
              IN  run' = [run EXCEPT ![r].fut[b] =
                            [@ EXCEPT !.st = "done",
                                      !.mapping = parse_model_output(reply),
                                      !.raw = reply,
                                      !.range = <<run[r].batches[b][1].index,
                                                  run[r].batches[b][Len(run[r].batches[b])].index>>]]
    /\ UNCHANGED <<items, tree, work_q, stop_flag, worker_thread, polling, nruns,
                   test, ntests>>
    /\ UNCHANGED <<input_text, input_format, srt_file, proxy_history>>

\* faulty variant of CallRaise: the failed batch is queued again for a retry
CallRaiseRetry(r, b) ==
    /\ b \in DOMAIN run[r].fut
    /\ run[r].fut[b].st = "inflight"
    /\ run' = [run EXCEPT ![r].fut[b] = [@ EXCEPT !.st = "queued"]]
    /\ UNCHANGED <<items, tree, work_q, stop_flag, worker_thread, polling, nruns,
                   test, ntests>>
    /\ UNCHANGED <<input_text, input_format, srt_file, proxy_history>>

\* the remote call raises (transport error, non-2xx, malformed body)
CallRaise(r, b) ==
    /\ b \in DOMAIN run[r].fut
    /\ run[r].fut[b].st = "inflight"
    /\ run' = [run EXCEPT ![r].fut[b] = [@ EXCEPT !.st = "done", !.exc = TRUE]]
    /\ UNCHANGED <<items, tree, work_q, stop_flag, worker_thread, polling, nruns,
                   test, ntests>>
    /\ UNCHANGED <<input_text, input_format, srt_file, proxy_history>>

\* faulty variant of DriverNext: a skipped batch is counted as completed
DriverNextCountsSkipped(r, b) ==
    /\ run[r].pc = "loop"
    /\ b \in DOMAIN run[r].fut
    /\ run[r].fut[b].st = "done"
    /\ ~run[r].fut[b].consumed
    /\ LET res == run[r].fut[b]
           me == [run[r] EXCEPT !.fut[b] = ConsumedFuture(res)]
           pre == IF stop_flag THEN <<StatusEv(r, "stopping")>> ELSE <<>>
       IN  IF res.exc
           THEN /\ work_q' = Put(work_q, pre)
                /\ run' = [run EXCEPT ![r] =
                             [(IF pre = <<>> THEN me ELSE Emitted(me, pre)) EXCEPT
                                !.pc = "abort", !.err = "call", !.bad = b]]
           ELSE IF res.skipped
           THEN /\ work_q' = Put(work_q, pre)
                /\ run' = [run EXCEPT ![r] =
                             [(IF pre = <<>> THEN me ELSE Emitted(me, pre)) EXCEPT
                                !.completed = @ + 1]]
           ELSE IF DOMAIN res.mapping = {}
           THEN LET evs == pre \o <<LogEv(r, "bad format"), RawLogEv(r, res.raw)>> IN
                /\ work_q' = Put(work_q, evs)
                /\ run' = [run EXCEPT ![r] =
                             [Emitted(me, evs) EXCEPT
                                !.pc = "abort", !.err = "decode", !.bad = b,
                                !.rawLog = TRUE]]
           ELSE LET done == me.completed + 1
                    total == Len(me.batches)
                    evs == pre \o <<[UpdateEv(r, res.mapping) EXCEPT
                                       !.hist.atStop = res.atStop,
                                       !.hist.sent =
                                          {me.batches[b][k].index :
                                              k \in 1..Len(me.batches[b])}],
                                    Ev("log", r, "batch ok", EmptyMapping, <<>>,
                                       done, total),
                                    Ev("status", r, "progress", EmptyMapping, <<>>,
                                       done, total)>>
                IN
                /\ work_q' = Put(work_q, evs)
                /\ run' = [run EXCEPT ![r] =
                             [Emitted(me, evs) EXCEPT
                                !.completed = done,
                                !.merged = @ \cup DOMAIN res.mapping]]
    /\ UNCHANGED <<items, tree, stop_flag, worker_thread, polling, nruns, test, ntests>>
    /\ UNCHANGED <<input_text, input_format, srt_file, proxy_history>>

\* one turn of the as_completed loop (lines 641-670) on a completed future;
\* as_completed yields the futures as they complete, those already complete
\* when it is called in no particular order
DriverNext(r, b) ==
    /\ run[r].pc = "loop"
    /\ b \in DOMAIN run[r].fut
    /\ run[r].fut[b].st = "done"
    /\ ~run[r].fut[b].consumed
    /\ LET res == run[r].fut[b]
           me == [run[r] EXCEPT !.fut[b] = ConsumedFuture(res)]
           pre == IF stop_flag THEN <<StatusEv(r, "stopping")>> ELSE <<>>
       IN  IF res.exc
           THEN /\ work_q' = Put(work_q, pre)
                /\ run' = [run EXCEPT ![r] =
                             [(IF pre = <<>> THEN me ELSE Emitted(me, pre)) EXCEPT
                                !.pc = "abort", !.err = "call", !.bad = b]]
           ELSE IF res.skipped
           THEN /\ work_q' = Put(work_q, pre)
                /\ run' = [run EXCEPT ![r] =
                             IF pre = <<>> THEN me ELSE Emitted(me, pre)]
           ELSE IF DOMAIN res.mapping = {}
           THEN LET evs == pre \o <<LogEv(r, "bad format"), RawLogEv(r, res.raw)>> IN
                /\ work_q' = Put(work_q, evs)
                /\ run' = [run EXCEPT ![r] =
                             [Emitted(me, evs) EXCEPT
                                !.pc = "abort", !.err = "decode", !.bad = b,
                                !.rawLog = TRUE]]
           ELSE LET done == me.completed + 1
                    total == Len(me.batches)
                    evs == pre \o <<[UpdateEv(r, res.mapping) EXCEPT
                                       !.hist.atStop = res.atStop,
                                       !.hist.sent =
                                          {me.batches[b][k].index :
                                              k \in 1..Len(me.batches[b])}],
                                    Ev("log", r, "batch ok", EmptyMapping, <<>>,
                                       done, total),
                                    Ev("status", r, "progress", EmptyMapping, <<>>,
                                       done, total)>>
                IN
                /\ work_q' = Put(work_q, evs)
                /\ run' = [run EXCEPT ![r] =
                             [Emitted(me, evs) EXCEPT
                                !.completed = done,
                                !.merged = @ \cup DOMAIN res.mapping]]
    /\ UNCHANGED <<items, tree, stop_flag, worker_thread, polling, nruns, test, ntests>>
    /\ UNCHANGED <<input_text, input_format, srt_file, proxy_history>>

AllConsumed(r) == \A b \in 1..Len(run[r].fut) : run[r].fut[b].consumed
AllResolved(r) == \A b \in 1..Len(run[r].fut) : run[r].fut[b].st = "done"

\* faulty variant of DriverFinish: the loop ends as soon as one result was
\* taken
DriverFinishEarly(r) ==
    /\ run[r].pc = "loop"
    /\ \E b \in 1..Len(run[r].fut) : run[r].fut[b].consumed
    /\ LET evs == (IF stop_flag
                   THEN <<LogEv(r, "stopped, completed batches kept"),
                          StatusEv(r, "stopped")>>
                   ELSE <<>>) \o <<WithHist(DoneEv(r), run[r])>>
       IN  /\ work_q' = Put(work_q, evs)
           /\ run' = [run EXCEPT ![r] = [Emitted(run[r], evs) EXCEPT !.pc = "exit"]]
    /\ UNCHANGED <<items, tree, stop_flag, worker_thread, polling, nruns, test, ntests>>
    /\ UNCHANGED <<input_text, input_format, srt_file, proxy_history>>

\* the loop is exhausted: lines 672-676
DriverFinish(r) ==
    /\ run[r].pc = "loop"
    /\ AllConsumed(r)
    /\ LET evs == (IF stop_flag
                   THEN <<LogEv(r, "stopped, completed batches kept"),
                          StatusEv(r, "stopped")>>
                   ELSE <<>>) \o <<WithHist(DoneEv(r), run[r])>>
       IN  /\ work_q' = Put(work_q, evs)
           /\ run' = [run EXCEPT ![r] = [Emitted(run[r], evs) EXCEPT !.pc = "exit"]]
    /\ UNCHANGED <<items, tree, stop_flag, worker_thread, polling, nruns, test, ntests>>
    /\ UNCHANGED <<input_text, input_format, srt_file, proxy_history>>

\* faulty variant of DriverAbort: the error event is put without waiting for
\* the batches still in the pool
DriverAbortNoWait(r) ==
    /\ run[r].pc = "abort"
    /\ LET evs == <<WithHist(ErrorEv(r, run[r].err), run[r])>>
       IN  /\ work_q' = Put(work_q, evs)
           /\ run' = [run EXCEPT ![r] = [Emitted(run[r], evs) EXCEPT !.pc = "exit"]]
    /\ UNCHANGED <<items, tree, stop_flag, worker_thread, polling, nruns, test, ntests>>
    /\ UNCHANGED <<input_text, input_format, srt_file, proxy_history>>

\* faulty variant of DriverAbort: the exception is swallowed, no error event
DriverAbortSilent(r) ==
    /\ run[r].pc = "abort"
    /\ AllResolved(r)
    /\ run' = [run EXCEPT ![r].pc = "exit"]
    /\ UNCHANGED <<items, tree, work_q, stop_flag, worker_thread, polling, nruns,
                   test, ntests>>
    /\ UNCHANGED <<input_text, input_format, srt_file, proxy_history>>

\* faulty variant of DriverAbort: a decoded result left unconsumed by the abort
\* is merged before the error event
DriverAbortMerging(r) ==
    /\ run[r].pc = "abort"
    /\ AllResolved(r)
    /\ LET left == {b \in 1..Len(run[r].fut) :
                      ~run[r].fut[b].consumed /\ DOMAIN run[r].fut[b].mapping # {}}
       IN  IF left = {}
           THEN LET evs == <<WithHist(ErrorEv(r, run[r].err), run[r])>> IN
                /\ work_q' = Put(work_q, evs)
                /\ run' = [run EXCEPT ![r] = [Emitted(run[r], evs) EXCEPT !.pc = "exit"]]
           ELSE LET b == CHOOSE x \in left : TRUE
                    evs == <<UpdateEv(r, run[r].fut[b].mapping)>> IN
                /\ work_q' = Put(work_q, evs)
                /\ run' = [run EXCEPT ![r] =
                             [Emitted(run[r], evs) EXCEPT
                                !.fut[b] = ConsumedFuture(run[r].fut[b]),
                                !.merged = @ \cup DOMAIN run[r].fut[b].mapping]]
    /\ UNCHANGED <<items, tree, stop_flag, worker_thread, polling, nruns, test, ntests>>
    /\ UNCHANGED <<input_text, input_format, srt_file, proxy_history>>

\* an exception left the with block: the executor's shutdown(wait=True) lets
\* every submitted batch finish, then the except clause reports (lines 678-679)
DriverAbort(r) ==
    /\ run[r].pc = "abort"
    /\ AllResolved(r)
    /\ LET evs == <<WithHist(ErrorEv(r, run[r].err), run[r])>>
       IN  /\ work_q' = Put(work_q, evs)
           /\ run' = [run EXCEPT ![r] = [Emitted(run[r], evs) EXCEPT !.pc = "exit"]]
    /\ UNCHANGED <<items, tree, stop_flag, worker_thread, polling, nruns, test, ntests>>
    /\ UNCHANGED <<input_text, input_format, srt_file, proxy_history>>

\* _translate_worker returns: the thread is no longer alive and its locals
\* are gone (the record keeps what was emitted as terminal event)
ThreadExit(r) ==
    /\ run[r].pc = "exit"
    /\ run' = [run EXCEPT ![r] =
                 [IdleRun EXCEPT !.pc = "dead", !.terms = run[r].terms,
                                 !.term = run[r].term, !.late = run[r].late]]
    /\ UNCHANGED <<items, tree, work_q, stop_flag, worker_thread, polling, nruns,
                   test, ntests>>
    /\ UNCHANGED <<input_text, input_format, srt_file, proxy_history>>

Next ==
    \/ \E f \in Forms : on_translate(f)
    \/ on_stop
    \/ \E f \in Forms : on_test_connection(f)
    \/ PollGet
    \/ PollEmpty
    \/ \E t \in TestIds : TestOk(t) \/ TestFail(t)
    \/ \E r \in RunIds :
          \/ DriverStart(r)
          \/ PickUp(r)
          \/ \E b \in BatchIds : CallReturn(r, b)
          \/ \E b \in BatchIds : CallRaise(r, b)
          \/ \E b \in BatchIds : DriverNext(r, b)
          \/ DriverFinish(r)
          \/ DriverAbort(r)
          \/ ThreadExit(r)

Spec == Init /\ [][Next]_vars

(* ------------------- planning a run: pending and batches --------------- *)

\* units a table may hold in the planning specification
PlanUnits == 3

\* a unit of a loaded table: an index (gaps and repeats occur), a source text,
\* and a translation that is empty, whitespace-only or present
PlanUnit(i, tr) == [index |-> i, time |-> "", src |-> "src", tr |-> tr]

\* the tables on_parse_to_table and later edits can leave: sorted by index
PlanTables ==
    {t \in UNION {[1..n -> {PlanUnit(i, tr) : i \in 1..(PlanUnits + 1),
                                            tr \in {"", " ", "done"}}] :
                     n \in 0..PlanUnits} :
        \A k \in 1..(Len(t) - 1) : t[k].index <= t[k + 1].index}

\* the translate requests of the planning specification: batch size 1 or 2
PlanForms ==
    {Form(bs, "2", "http://host/v1", "sk", "guide") : bs \in {"1", "2"}}
    \cup InvalidForms

InitPlan ==
    /\ items \in PlanTables
    /\ tree = RefreshTable(items)
    /\ work_q = <<>>
    /\ stop_flag = FALSE
    /\ worker_thread = 0
    /\ polling = FALSE
    /\ run = [r \in RunIds |-> IdleRun]
    /\ nruns = 0
    /\ test = [t \in TestIds |-> "idle"]
    /\ ntests = 0
    /\ input_text = <<>>
    /\ input_format = "tsv"
    /\ srt_file = <<>>
    /\ proxy_history = <<>>

\* a translate request and the driver's planning: the run up to the submit
NextPlan ==
    \/ \E f \in PlanForms : on_translate(f)
    \/ \E r \in RunIds : DriverStart(r)

SpecPlan == InitPlan /\ [][NextPlan]_vars

(* ------------------------ loading the table ---------------------------- *)

\* lines a pasted text is made of, lines per block, blocks and lines per text
ParseLines == {NumLine(1), TimeLine, TextLine("Hello"), TabLine(1, "A")}
ParseBlockLen == 3
ParseBlocks == 2
ParseTextLines == 4

\* the text made of the given lines with a blank line after each line whose
\* position is in cuts
RECURSIVE CutIntoBlocks(_, _, _)
CutIntoBlocks(lines, cuts, from) ==
    IF from > Len(lines) THEN <<>>
    ELSE LET ends == {k \in from..Len(lines) : k \in cuts \/ k = Len(lines)}
             to == CHOOSE k \in ends : \A k2 \in ends : k <= k2
         IN  <<SubSeq(lines, from, to)>> \o CutIntoBlocks(lines, cuts, to + 1)

ParseTexts ==
    {text \in UNION {UNION {{CutIntoBlocks(lines, cuts, 1) :
                                 cuts \in SUBSET (1..(n - 1))} :
                                lines \in [1..n -> ParseLines]} :
                        n \in 0..ParseTextLines} :
        /\ Len(text) <= ParseBlocks
        /\ \A k \in 1..Len(text) : Len(text[k]) <= ParseBlockLen}

\* on_load_srt, on_load_txt: the file's content replaces the input box
on_load_txt(text) ==
    /\ ~polling
    /\ input_text' = text
    /\ UNCHANGED <<items, tree, work_q, stop_flag, worker_thread, polling, run,
                   nruns, test, ntests, input_format>>
    /\ UNCHANGED <<srt_file, proxy_history>>

\* faulty variant of on_parse_to_table: the parsed units are added to those
\* already loaded
on_parse_to_tableAppending ==
    /\ ~polling
    /\ LET parsed == detect_and_parse_subtitles(input_text)
       IN  IF parsed = <<>>
           THEN UNCHANGED <<items, tree, input_format>>
           ELSE /\ items' = SortByIndex(items \o parsed)
                /\ input_format' = detected_format(input_text)
                /\ tree' = RefreshTable(SortByIndex(items \o parsed))
    /\ UNCHANGED <<work_q, stop_flag, worker_thread, polling, run, nruns, test,
                   ntests, input_text>>
    /\ UNCHANGED <<srt_file, proxy_history>>

\* on_parse_to_table: parse the input box, keep the table on failure
on_parse_to_table ==
    /\ ~polling
    /\ LET parsed == detect_and_parse_subtitles(input_text)
       IN  IF parsed = <<>>
           THEN UNCHANGED <<items, tree, input_format>>
           ELSE /\ items' = SortByIndex(parsed)
                /\ input_format' = detected_format(input_text)
                /\ tree' = RefreshTable(SortByIndex(parsed))
    /\ UNCHANGED <<work_q, stop_flag, worker_thread, polling, run, nruns, test,
                   ntests, input_text>>
    /\ UNCHANGED <<srt_file, proxy_history>>

\* on_clear_all
on_clear_all ==
    /\ ~polling
    /\ input_text' = <<>>
    /\ items' = <<>>
    /\ tree' = <<>>
    /\ input_format' = "none"
    /\ UNCHANGED <<work_q, stop_flag, worker_thread, polling, run, nruns, test, ntests>>
    /\ UNCHANGED <<srt_file, proxy_history>>

\* the application right after construction, a text pasted into the input box
InitParse ==
    /\ input_text \in ParseTexts
    /\ input_format = "none"
    /\ srt_file = <<>>
    /\ proxy_history = <<>>
    /\ items = <<>>
    /\ tree = <<>>
    /\ work_q = <<>>
    /\ stop_flag = FALSE
    /\ worker_thread = 0
    /\ polling = FALSE
    /\ run = [r \in RunIds |-> IdleRun]
    /\ nruns = 0
    /\ test = [t \in TestIds |-> "idle"]
    /\ ntests = 0

NextParse ==
    \/ on_parse_to_table
    \/ on_clear_all

SpecParse == InitParse /\ [][NextParse]_vars

(* ------------------- parsing well-formed SRT text ---------------------- *)

\* explicit block numbers and blocks per text in the SRT specification
SrtIndexes == 3
SrtBlocks == 3

\* a well-formed block: optional number line, time line, one or two text lines
WellFormedBlocks ==
    {<<NumLine(i), TimeLine, TextLine("Hello")>> : i \in 1..SrtIndexes}
        \cup {<<TimeLine, TextLine("Hello")>>,
              <<TimeLine, TextLine("Hello"), TextLine("World")>>}

SrtTexts == UNION {[1..n -> WellFormedBlocks] : n \in 0..SrtBlocks}

\* the application right after construction, SRT text pasted into the input box
InitSrt ==
    /\ input_text \in SrtTexts
    /\ input_format = "none"
    /\ srt_file = <<>>
    /\ proxy_history = <<>>
    /\ items = <<>>
    /\ tree = <<>>
    /\ work_q = <<>>
    /\ stop_flag = FALSE
    /\ worker_thread = 0
    /\ polling = FALSE
    /\ run = [r \in RunIds |-> IdleRun]
    /\ nruns = 0
    /\ test = [t \in TestIds |-> "idle"]
    /\ ntests = 0

NextSrt ==
    \/ on_parse_to_table
    \/ on_clear_all

SpecSrt == InitSrt /\ [][NextSrt]_vars

(* ------------------------ parsing tabular text ------------------------- *)

\* explicit indices and lines per text in the tabular specification
TabIndexes == 3
TabLines == 3

\* texts in which every line is an integer, a tab, then text ("A", or a text
\* with the marker "-->"), without blank lines between them
TabTexts ==
    {<<>>} \cup
    {<<block>> : block \in
        UNION {[1..n -> {TabLine(i, t) : i \in 1..TabIndexes, t \in {"A", "a --> b"}}] :
                  n \in 1..TabLines}}

\* the application right after construction, tabular text in the input box
InitTab ==
    /\ input_text \in TabTexts
    /\ input_format = "none"
    /\ srt_file = <<>>
    /\ proxy_history = <<>>
    /\ items = <<>>
    /\ tree = <<>>
    /\ work_q = <<>>
    /\ stop_flag = FALSE
    /\ worker_thread = 0
    /\ polling = FALSE
    /\ run = [r \in RunIds |-> IdleRun]
    /\ nruns = 0
    /\ test = [t \in TestIds |-> "idle"]
    /\ ntests = 0

NextTab ==
    \/ on_parse_to_table
    \/ on_clear_all

SpecTab == InitTab /\ [][NextTab]_vars

(* ------------- the codec on texts written out in characters ------------ *)
\* Here a source text, a payload and a reply are sequences of one-character
\* strings, so that formatting and matching are computed character by
\* character.

\* str(idx): the decimal digits of a non-negative integer
RECURSIVE DigitsOf(_)
DigitsOf(n) == IF n < 10 THEN <<ToString(n)>> ELSE DigitsOf(n \div 10) \o <<ToString(n % 10)>>

IsDigit(c) == \E d \in 0..9 : c = ToString(d)
DigitVal(c) == CHOOSE d \in 0..9 : c = ToString(d)

\* int(m.group(1))
RECURSIVE IntOfDigits(_)
IntOfDigits(cs) ==
    IF cs = <<>> THEN 0
    ELSE 10 * IntOfDigits(SubSeq(cs, 1, Len(cs) - 1)) + DigitVal(cs[Len(cs)])

\* whitespace for str.strip() and the pattern \s
IsSpace(c) == c \in {" ", "\t", "\n"}

RECURSIVE LStrip(_)
LStrip(cs) == IF cs # <<>> /\ IsSpace(Head(cs)) THEN LStrip(Tail(cs)) ELSE cs

RECURSIVE RStrip(_)
RStrip(cs) ==
    IF cs # <<>> /\ IsSpace(cs[Len(cs)]) THEN RStrip(SubSeq(cs, 1, Len(cs) - 1)) ELSE cs

\* str.strip()
Strip(cs) == RStrip(LStrip(cs))

\* str.replace("\n", " ")
ReplaceNewlines(cs) == [k \in 1..Len(cs) |-> IF cs[k] = "\n" THEN " " ELSE cs[k]]

\* position of the first character c of cs, 0 when there is none
FirstOf(cs, c) ==
    IF \E k \in 1..Len(cs) : cs[k] = c
    THEN CHOOSE k \in 1..Len(cs) : cs[k] = c /\ \A j \in 1..(k - 1) : cs[j] # c
    ELSE 0

\* str.split("\n")
RECURSIVE SplitLines(_)
SplitLines(cs) ==
    LET k == FirstOf(cs, "\n")
    IN  IF k = 0 THEN <<cs>>
        ELSE <<SubSeq(cs, 1, k - 1)>> \o SplitLines(SubSeq(cs, k + 1, Len(cs)))

\* "\n".join(lines)
RECURSIVE JoinNewline(_)
JoinNewline(lines) ==
    IF lines = <<>> THEN <<>>
    ELSE IF Len(lines) = 1 THEN lines[1]
    ELSE lines[1] \o <<"\n">> \o JoinNewline(Tail(lines))

\* build_user_payload on characters: the list part "index<TAB>source" per
\* unit, the source with newlines replaced and stripped
build_user_payload_text(batch_items) ==
    [head |-> "DANH SACH CAN DICH:",
     list |-> JoinNewline([k \in 1..Len(batch_items) |->
                             DigitsOf(batch_items[k].index) \o <<"\t">>
                                 \o Strip(ReplaceNewlines(batch_items[k].src))])]

\* the remote service answering every line "index<TAB>source" of the list
\* with the line "index: source"
EchoReplyText(payload) ==
    IF payload.list = <<>> THEN <<>>
    ELSE LET lines == SplitLines(payload.list)
         IN  JoinNewline([k \in 1..Len(lines) |->
                 LET t == FirstOf(lines[k], "\t")
                 IN  SubSeq(lines[k], 1, t - 1) \o <<":", " ">>
                         \o SubSeq(lines[k], t + 1, Len(lines[k]))])

\* number of leading digits
RECURSIVE LeadDigits(_)
LeadDigits(cs) == IF cs # <<>> /\ IsDigit(Head(cs)) THEN 1 + LeadDigits(Tail(cs)) ELSE 0

\* faulty variant of MatchLine: the text is what follows the last colon
MatchLineLastColon(ln) ==
    LET nd == LeadDigits(ln)
        colons == {k \in 1..Len(ln) : ln[k] = ":"}
    IN  IF nd = 0 \/ colons = {} THEN [ok |-> FALSE, idx |-> 0, tr |-> <<>>]
        ELSE LET last == CHOOSE k \in colons : \A k2 \in colons : k2 <= k
             IN  [ok |-> TRUE, idx |-> IntOfDigits(SubSeq(ln, 1, nd)),
                  tr |-> Strip(SubSeq(ln, last + 1, Len(ln)))]

\* re.match(r"^(\d+)\s*:\s*(.*)$", ln), with idx and tr of lines 178-180
MatchLine(ln) ==
    LET nd == LeadDigits(ln)
        rest == LStrip(SubSeq(ln, nd + 1, Len(ln)))
    IN  IF nd = 0 \/ rest = <<>> \/ Head(rest) # ":"
        THEN [ok |-> FALSE, idx |-> 0, tr |-> <<>>]
        ELSE [ok |-> TRUE, idx |-> IntOfDigits(SubSeq(ln, 1, nd)),
              tr |-> Strip(LStrip(Tail(rest)))]

RECURSIVE parse_text_lines(_, _)
parse_text_lines(lines, mapping) ==
    IF lines = <<>> THEN mapping
    ELSE LET m == MatchLine(Strip(Head(lines)))
             m2 == IF m.ok
                   THEN [i \in DOMAIN mapping \cup {m.idx} |->
                            IF i = m.idx THEN m.tr ELSE mapping[i]]
                   ELSE mapping
         IN  parse_text_lines(Tail(lines), m2)

\* parse_model_output on characters
parse_model_output_text(output) ==
    parse_text_lines(SplitLines(Strip(output)), EmptyMapping)

\* characters per source text and largest index of the codec specification
CodecSrcLen == 3
CodecMaxIndex == 12

\* source texts as the parsers leave them: stripped, without newline
CodecSources ==
    {cs \in UNION {[1..n -> {"a", " ", ":", "1"}] : n \in 0..CodecSrcLen} :
        Strip(cs) = cs}

\* tables with unique indices, sorted, nothing translated: one unit, or one
\* of index 1 and one of the largest index
CodecUnit(i, src) == [index |-> i, time |-> "", src |-> src, tr |-> <<>>]
CodecTables ==
    {<<CodecUnit(i, src)>> : i \in {1, CodecMaxIndex}, src \in CodecSources}
        \cup {<<CodecUnit(1, s1), CodecUnit(CodecMaxIndex, s2)>> :
                 s1 \in CodecSources, s2 \in CodecSources}

InitCodec ==
    /\ items \in CodecTables
    /\ tree = RefreshTable(items)
    /\ work_q = <<>>
    /\ stop_flag = FALSE
    /\ worker_thread = 0
    /\ polling = FALSE
    /\ run = [r \in RunIds |-> IdleRun]
    /\ nruns = 0
    /\ test = [t \in TestIds |-> "idle"]
    /\ ntests = 0
    /\ input_text = <<>>
    /\ input_format = "tsv"
    /\ srt_file = <<>>
    /\ proxy_history = <<>>

\* translate_one_batch on the whole table against the echoing service, and
\* the merge of its mapping
TranslateEcho ==
    /\ \A k \in 1..Len(items) : items[k].tr = <<>>
    /\ LET mapping == parse_model_output_text(EchoReplyText(build_user_payload_text(items)))
       IN  /\ items' = ApplyToItems(items, mapping)
           /\ tree' = ApplyToTree(tree, mapping)
    /\ UNCHANGED <<work_q, stop_flag, worker_thread, polling, run, nruns, test,
                   ntests, input_text, input_format>>
    /\ UNCHANGED <<srt_file, proxy_history>>

NextCodec == TranslateEcho \/ on_clear_all

SpecCodec == InitCodec /\ [][NextCodec]_vars

(* ---------------- one run against replies with stray lines ------------- *)

\* runs started in the specifications that follow one run at a time
SoloRuns == 1

\* a table with two pending units and one that is already translated
StrayItems ==
    << [index |-> 1, time |-> "", src |-> "Hello", tr |-> ""],
       [index |-> 2, time |-> "", src |-> "World", tr |-> ""],
       [index |-> 3, time |-> "", src |-> "Bye", tr |-> "done"] >>

InitStray ==
    /\ items = StrayItems
    /\ tree = RefreshTable(StrayItems)
    /\ work_q = <<>>
    /\ stop_flag = FALSE
    /\ worker_thread = 0
    /\ polling = FALSE
    /\ run = [r \in RunIds |-> IdleRun]
    /\ nruns = 0
    /\ test = [t \in TestIds |-> "idle"]
    /\ ntests = 0
    /\ input_text = <<>>
    /\ input_format = "tsv"
    /\ srt_file = <<>>
    /\ proxy_history = <<>>

\* the pipeline without test-connection requests, the remote service also
\* giving replies with a stray line
NextStray ==
    \/ \E f \in Forms : nruns < SoloRuns /\ on_translate(f)
    \/ on_stop
    \/ PollGet
    \/ PollEmpty
    \/ \E r \in RunIds :
          \/ DriverStart(r)
          \/ PickUp(r)
          \/ \E b \in BatchIds : CallReturn(r, b)
          \/ \E b \in BatchIds : CallReturnStray(r, b)
          \/ \E b \in BatchIds : CallRaise(r, b)
          \/ \E b \in BatchIds : DriverNext(r, b)
          \/ DriverFinish(r)
          \/ DriverAbort(r)
          \/ ThreadExit(r)

SpecStray == InitStray /\ [][NextStray]_vars

(* --------------- one run with table and input-box requests ------------- *)

\* text typed into a Translation cell
EditTexts == {"edit"}

\* TreeviewCellEditor.save_edit: only the table's Translation cell is set
EditCell(k, v) ==
    /\ ~polling
    /\ k \in 1..Len(tree)
    /\ tree' = [tree EXCEPT ![k].Translation = v]
    /\ UNCHANGED <<items, work_q, stop_flag, worker_thread, polling, run, nruns,
                   test, ntests>>
    /\ UNCHANGED <<input_text, input_format, srt_file, proxy_history>>

\* files the user loads into the input box: the two lines Hello, World, which
\* parse to LoadedItems, and the single line Bye
UiTexts == {LoadedText, << <<TextLine("Bye")>> >>}

\* one run, the user editing cells, clearing and parsing at any time
NextUi ==
    \/ \E f \in InvalidForms : on_translate(f)
    \/ \E f \in ValidForms : nruns < SoloRuns /\ on_translate(f)
    \/ on_stop
    \/ \E k \in BatchIds, v \in EditTexts : EditCell(k, v)
    \/ on_clear_all
    \/ \E text \in UiTexts : on_load_txt(text)
    \/ on_parse_to_table
    \/ PollGet
    \/ PollEmpty
    \/ \E r \in RunIds :
          \/ DriverStart(r)
          \/ PickUp(r)
          \/ \E b \in BatchIds : CallReturn(r, b)
          \/ \E b \in BatchIds : CallRaise(r, b)
          \/ \E b \in BatchIds : DriverNext(r, b)
          \/ DriverFinish(r)
          \/ DriverAbort(r)
          \/ ThreadExit(r)

SpecUi == Init /\ [][NextUi]_vars

(* ------------------ one run with pools of one or two ------------------- *)

\* valid forms with batch size 1 or 2 and concurrency 1 or 2
PoolForms == {Form(bs, cc, "http://host/v1", "sk", "guide") :
                 bs \in {"1", "2"}, cc \in {"1", "2"}}

NextPool ==
    \/ \E f \in PoolForms : nruns < SoloRuns /\ on_translate(f)
    \/ on_stop
    \/ PollGet
    \/ PollEmpty
    \/ \E r \in RunIds :
          \/ DriverStart(r)
          \/ PickUp(r)
          \/ \E b \in BatchIds : CallReturn(r, b)
          \/ \E b \in BatchIds : CallRaise(r, b)
          \/ \E b \in BatchIds : DriverNext(r, b)
          \/ DriverFinish(r)
          \/ DriverAbort(r)
          \/ ThreadExit(r)

SpecPool == Init /\ [][NextPool]_vars

\* every remote call returns or raises
CallEnds(r, b) == CallReturn(r, b) \/ CallRaise(r, b)

\* The run's thread and the pool's workers are scheduled, every call ends,
\* and the display thread keeps running _poll_queue (self.after, line 390).
FairPool ==
    /\ \A r \in RunIds :
          /\ WF_vars(DriverStart(r))
          /\ WF_vars(PickUp(r))
          /\ \A b \in BatchIds : WF_vars(CallEnds(r, b))
          /\ \A b \in BatchIds : WF_vars(DriverNext(r, b))
          /\ WF_vars(DriverFinish(r))
          /\ WF_vars(DriverAbort(r))
          /\ WF_vars(ThreadExit(r))
    /\ WF_vars(PollGet)
    /\ WF_vars(PollEmpty)

SpecLive == Init /\ [][NextPool]_vars /\ FairPool

(* ----------------- loading one text after another ---------------------- *)

\* files loaded into the input box: an empty one, tabular lines, a lone time
\* line (no SRT block, one tabular line), SRT blocks numbered 2 and 1
LoadTexts ==
    {<<>>,
     LoadedText,
     << <<TextLine("Bye")>> >>,
     << <<TimeLine>> >>,
     << <<NumLine(2), TimeLine, TextLine("Hello")>>,
        <<NumLine(1), TimeLine, TextLine("World")>> >>}

\* a table is loaded, one unit translated; files are loaded, parsed, cleared
\* and cells edited in any order
NextLoad ==
    \/ \E text \in LoadTexts : on_load_txt(text)
    \/ on_parse_to_table
    \/ on_clear_all
    \/ \E k \in BatchIds, v \in EditTexts : EditCell(k, v)
    \/ \E f \in InvalidForms : on_translate(f)

SpecLoad == InitStray /\ [][NextLoad]_vars

(* ------------------- merging a queue of mappings ----------------------- *)

\* merge events waiting on the queue in the merge specification
MergeEvents == 3

\* the tables of the merge specification: one with the indices 1, 2, 3 and
\* one where two units carry the index 1
MergeTables == {StrayItems, [StrayItems EXCEPT ![2].index = 1]}

\* the index sets a mapping may have
MergeDomains == (SUBSET {StrayItems[k].index : k \in 1..Len(StrayItems)}) \ {{}}

\* the text the k-th mapping gives to its indices
MergeText(k) == "m" \o ToString(k)

\* the queues of up to MergeEvents merge events
MergeQueues ==
    UNION {{[k \in 1..n |-> UpdateEv(0, [i \in d[k] |-> MergeText(k)])] :
               d \in [1..n -> MergeDomains]} : n \in 0..MergeEvents}

InitMerge ==
    /\ items \in MergeTables
    /\ tree = RefreshTable(items)
    /\ work_q \in MergeQueues
    /\ stop_flag = FALSE
    /\ worker_thread = 0
    /\ polling = FALSE
    /\ run = [r \in RunIds |-> IdleRun]
    /\ nruns = 0
    /\ test = [t \in TestIds |-> "idle"]
    /\ ntests = 0
    /\ input_text = <<>>
    /\ input_format = "tsv"
    /\ srt_file = <<>>
    /\ proxy_history = <<>>

\* the display thread drains the queue
NextMerge == PollGet \/ PollEmpty

SpecMerge == InitMerge /\ [][NextMerge]_vars

(* ----------------- one run against incomplete replies ------------------ *)

\* replies that answer a request in part: the last line of the request is
\* left out, or it is answered with no text after the colon
ShortReplies(payload, r) ==
    LET echo == EchoReply(payload, TextOf(r))
        n == Len(echo)
    IN  {[echo EXCEPT ![n].text = ""]}
        \cup (IF n >= 2 THEN {SubSeq(echo, 1, n - 1)} ELSE {})

\* the remote call returns a reply that answers the request in part
CallReturnShort(r, b) ==
    /\ b \in DOMAIN run[r].fut
    /\ run[r].fut[b].st = "inflight"
    /\ \E reply \in ShortReplies(run[r].fut[b].payload, r) :
          run' = [run EXCEPT ![r].fut[b] =
                    [@ EXCEPT !.st = "done",
                              !.mapping = parse_model_output(reply),
                              !.raw = reply,
                              !.range = <<run[r].batches[b][1].index,
                                          run[r].batches[b][Len(run[r].batches[b])].index>>]]
    /\ UNCHANGED <<items, tree, work_q, stop_flag, worker_thread, polling, nruns,
                   test, ntests>>
    /\ UNCHANGED <<input_text, input_format, srt_file, proxy_history>>

NextShort ==
    \/ \E f \in PoolForms : nruns < SoloRuns /\ on_translate(f)
    \/ on_stop
    \/ PollGet
    \/ PollEmpty
    \/ \E r \in RunIds :
          \/ DriverStart(r)
          \/ PickUp(r)
          \/ \E b \in BatchIds : CallReturn(r, b)
          \/ \E b \in BatchIds : CallReturnShort(r, b)
          \/ \E b \in BatchIds : CallRaise(r, b)
          \/ \E b \in BatchIds : DriverNext(r, b)
          \/ DriverFinish(r)
          \/ DriverAbort(r)
          \/ ThreadExit(r)

SpecShort == Init /\ [][NextShort]_vars

(* ------------------ editing cells before a run starts ------------------ *)

\* the user edits Translation cells of a loaded table and requests a run
NextEdit ==
    \/ \E k \in 1..PlanUnits, v \in {"edit", ""} : EditCell(k, v)
    \/ \E f \in PlanForms : on_translate(f)
    \/ \E r \in RunIds : DriverStart(r)

SpecEdit == InitPlan /\ [][NextEdit]_vars

(* --------------------------- exporting SRT ----------------------------- *)

\* str.strip() on the texts of the export tables
StripText(s) == CASE s = " " -> "" [] s = " Xin " -> "Xin" [] OTHER -> s

\* the time line written for a unit that has none
Placeholder == "00:00:00,000 --> 00:00:00,000"

\* the list lines of on_export_srt: index, time line, text and an empty line
\* for every unit in ascending index order
RECURSIVE SrtLines(_)
SrtLines(its) ==
    IF its = <<>> THEN <<>>
    ELSE LET it == Head(its)
         IN  << ToString(it.index),
                IF it.time # "" THEN it.time ELSE Placeholder,
                IF StripText(it.tr) # "" THEN StripText(it.tr) ELSE StripText(it.src),
                "" >> \o SrtLines(Tail(its))

\* "\n".join(lines).strip(): the lines without the empty ones at either end
RECURSIVE StripLines(_)
StripLines(lines) ==
    IF lines = <<>> THEN <<>>
    ELSE IF Head(lines) = "" THEN StripLines(Tail(lines))
    ELSE IF lines[Len(lines)] = "" THEN StripLines(SubSeq(lines, 1, Len(lines) - 1))
    ELSE lines

\* faulty variant of on_export_srt: the table edits are not pulled in
on_export_srtNoSync(chosen) ==
    /\ ~polling
    /\ items # <<>>
    /\ items' = items
    /\ srt_file' = IF chosen THEN StripLines(SrtLines(SortByIndex(items)))
                   ELSE srt_file
    /\ UNCHANGED <<tree, work_q, stop_flag, worker_thread, polling, run, nruns,
                   test, ntests, input_text, input_format, proxy_history>>

\* on_export_srt: sync the table edits, ask for a path, write the file;
\* chosen is FALSE when the file dialog is cancelled
on_export_srt(chosen) ==
    /\ ~polling
    /\ items # <<>>
    /\ items' = SyncTableToItems(items, tree)
    /\ srt_file' = IF chosen
                   THEN StripLines(SrtLines(SortByIndex(SyncTableToItems(items, tree))))
                   ELSE srt_file
    /\ UNCHANGED <<tree, work_q, stop_flag, worker_thread, polling, run, nruns,
                   test, ntests, input_text, input_format, proxy_history>>

\* units per exported table and their explicit indexes
ExportUnits == 2
ExportIndexes == ExportUnits

\* the tables on_parse_to_table can leave: sorted by index, with or without
\* time line, source text and translation
ExportUnit ==
    [index : 1..ExportIndexes, time : {"", "00:00:01,000 --> 00:00:02,000"},
     src : {"Hello", ""}, tr : {"", " Xin "}]
ExportTables ==
    {its \in UNION {[1..n -> ExportUnit] : n \in 1..ExportUnits} :
        \A k \in 1..(Len(its) - 1) : its[k].index <= its[k + 1].index}

\* what the user types into a Translation cell
ExportEdits == {"edit", " "}

InitExport ==
    /\ items \in ExportTables
    /\ tree = RefreshTable(items)
    /\ input_text = <<>>
    /\ input_format = "tsv"
    /\ srt_file = <<>>
    /\ proxy_history = <<>>
    /\ work_q = <<>>
    /\ stop_flag = FALSE
    /\ worker_thread = 0
    /\ polling = FALSE
    /\ run = [r \in RunIds |-> IdleRun]
    /\ nruns = 0
    /\ test = [t \in TestIds |-> "idle"]
    /\ ntests = 0

NextExport ==
    \/ \E k \in 1..ExportUnits, v \in ExportEdits : EditCell(k, v)
    \/ \E chosen \in BOOLEAN : on_export_srt(chosen)

SpecExport == InitExport /\ [][NextExport]_vars

(* ------------------- the proxy dashboard's history --------------------- *)

\* entries add_to_history keeps
HistoryCap == 50

\* adds per history, entries of the second proxy and tested entries in it
MaxAdds == 52
MaxAlt == 1
MaxTested == 1

\* data.get('http') of the proxies the service hands out
ProxyHosts == {"10.0.0.1:8080", "10.0.0.2:8080"}

\* the results a proxy test reports: status and speed
TestResults == {[status |-> "OK", speed |-> "80ms"], [status |-> "Loi", speed |-> "-"]}

\* the clock read by add_to_history: later than the newest entry's reading
Now == IF proxy_history = <<>> THEN 1 ELSE proxy_history[1].time + 1

\* faulty variant of add_to_history: the list is not cut
add_to_historyUncut(http) ==
    /\ Now <= MaxAdds
    /\ http = "10.0.0.1:8080"
          \/ Cardinality({k \in 1..Len(proxy_history) :
                             proxy_history[k].http = http}) < MaxAlt
    /\ LET entry == [time |-> Now, http |-> http, status |-> "Chua test", speed |-> "-"]
       IN  proxy_history' = <<entry>> \o proxy_history
    /\ UNCHANGED <<items, tree, work_q, stop_flag, worker_thread, polling, run,
                   nruns, test, ntests, input_text, input_format, srt_file>>

\* add_to_history: the new entry goes first, the list is cut to HistoryCap
add_to_history(http) ==
    /\ Now <= MaxAdds
    /\ http = "10.0.0.1:8080"
          \/ Cardinality({k \in 1..Len(proxy_history) :
                             proxy_history[k].http = http}) < MaxAlt
    /\ LET entry == [time |-> Now, http |-> http, status |-> "Chua test", speed |-> "-"]
           all == <<entry>> \o proxy_history
       IN  proxy_history' = IF Len(all) > HistoryCap
                            THEN SubSeq(all, 1, HistoryCap)
                            ELSE all
    /\ UNCHANGED <<items, tree, work_q, stop_flag, worker_thread, polling, run,
                   nruns, test, ntests, input_text, input_format, srt_file>>

\* update_history_status: the first entry of the proxy gets status and speed
update_history_status(http_proxy, res) ==
    /\ LET M == {k \in 1..Len(proxy_history) : proxy_history[k].http = http_proxy}
       IN  /\ M # {}
           /\ LET k == CHOOSE x \in M : \A y \in M : x <= y
              IN  /\ proxy_history[k].status # "Chua test"
                     \/ Cardinality({j \in 1..Len(proxy_history) :
                                        proxy_history[j].status # "Chua test"})
                        < MaxTested
                  /\ proxy_history' = [proxy_history EXCEPT ![k].status = res.status,
                                                            ![k].speed = res.speed]
    /\ UNCHANGED <<items, tree, work_q, stop_flag, worker_thread, polling, run,
                   nruns, test, ntests, input_text, input_format, srt_file>>

\* clear_history, confirmed in the dialog
clear_history ==
    /\ proxy_history # <<>>
    /\ proxy_history' = <<>>
    /\ UNCHANGED <<items, tree, work_q, stop_flag, worker_thread, polling, run,
                   nruns, test, ntests, input_text, input_format, srt_file>>

NextProxy ==
    \/ \E http \in ProxyHosts : add_to_history(http)
    \/ \E http \in ProxyHosts, res \in TestResults : update_history_status(http, res)
    \/ clear_history

SpecProxy == Init /\ [][NextProxy]_vars

(* ----------------------------- properties ------------------------------ *)
\* In the formulas below a run is active from its start until it has emitted
\* its terminal event (terms = 0 on a live thread); the terminal event of run
\* r is handled by the step that takes it from the head of work_q.

\* C1: at most one translation run is active at any time, whatever the
\* interleaving of translate, stop, test-connection requests and polling
C1_AtMostOneActiveRun ==
    Cardinality({r \in RunIds : is_alive(r) /\ run[r].terms = 0}) <= 1

\* C2: every started run emits exactly one terminal event (done, error or
\* stopped), emits nothing after it, and does not terminate without one
C2_ExactlyOneTerminalEvent ==
    \A r \in RunIds :
        /\ run[r].terms <= 1
        /\ ~run[r].late
        /\ run[r].terms = 1 => run[r].term \in {"done", "error", "stopped"}
        /\ run[r].pc \in {"exit", "dead"} => run[r].terms = 1
        /\ run[r].pc \in {"idle", "start", "loop", "abort"} => run[r].terms = 0

\* C2 witness: a run was aborted, emitted its error event and its thread ended
C2_RunEndedWithError ==
    \E r \in RunIds : run[r].pc = "dead" /\ run[r].terms = 1 /\ run[r].term = "error"

\* C3: a run that ends while a stop request is pending (the flag is set when
\* the driver emits the terminal event) ends with a terminal event that is
\* neither done nor error
C3_StopEndsInStoppedState ==
    [][\A r \in RunIds :
          (stop_flag /\ run[r].pc \in {"loop", "abort"}
             /\ run[r].terms = 0 /\ run'[r].terms = 1)
          => run'[r].term \notin {"done", "error"}]_vars

\* C4 as stated: when a run's driver is through, the decoded reply of every
\* call that was in flight when the stop flag became set has been merged
C4_InFlightAtStopAlwaysMerged ==
    \A r \in RunIds : \A b \in DOMAIN run[r].fut :
        (run[r].pc = "exit" /\ run[r].fut[b].atStop)
        => DOMAIN run[r].fut[b].mapping \subseteq run[r].merged

\* C4 amended: a worker that picks a batch up while the stop flag is set makes
\* no remote call and returns a skipped result; a stop request leaves every
\* call in flight as it is; the decoded reply of a call that was in flight when
\* the flag became set is merged when the driver consumes it, and is left
\* unmerged only by a run that a fatal batch result has aborted
C4_StopSkipsPickupKeepsInFlight ==
    [][\A r \in RunIds : \A b \in DOMAIN run[r].fut \cap DOMAIN run'[r].fut :
          LET f == run[r].fut[b]
              g == run'[r].fut[b]
          IN  /\ (stop_flag /\ f.st = "queued" /\ g.st # "queued")
                 => (g.st = "done" /\ g.skipped /\ g.calls = 0
                     /\ DOMAIN g.mapping = {})
              /\ (~stop_flag /\ stop_flag' /\ f.st = "inflight")
                 => (g.st = "inflight" /\ g.atStop /\ g.calls = f.calls)
              /\ (f.atStop /\ ~f.consumed /\ g.consumed /\ ~f.exc
                    /\ DOMAIN f.mapping # {})
                 => (DOMAIN f.mapping \subseteq run'[r].merged
                     /\ Len(work_q') = Len(work_q) + 1
                     /\ work_q'[Len(work_q')].kind = "update_translations"
                     /\ work_q'[Len(work_q')].mapping = f.mapping)
              /\ (run'[r].pc = "exit" /\ g.atStop
                    /\ ~(DOMAIN g.mapping \subseteq run'[r].merged))
                 => run'[r].err # ""]_vars

\* C4 witness: with the stop flag set, one batch of a run was skipped at
\* pick-up, and the merge event of another, whose call was in flight at the
\* stop request, is on the queue
C4_SkippedAndMergedAfterStop ==
    \E r \in RunIds : \E b \in DOMAIN run[r].fut : \E k \in 1..Len(work_q) :
        /\ stop_flag
        /\ run[r].fut[b].skipped /\ run[r].fut[b].calls = 0
        /\ work_q[k].kind = "update_translations" /\ work_q[k].run = r
        /\ work_q[k].hist.atStop
        /\ DOMAIN work_q[k].mapping \subseteq run[r].merged

\* C5: when the terminal event of a run is handled, every unit whose
\* translation the run had merged before the stop request still holds it
C5_PreStopMergesKept ==
    [][(work_q # <<>> /\ work_q' = Tail(work_q)
          /\ IsTerminal(Head(work_q)) /\ Head(work_q).run # 0)
       => \A i \in Head(work_q).hist.preStop :
             \E k \in 1..Len(items') :
                items'[k].index = i /\ items'[k].tr = TextOf(Head(work_q).run)]_vars

\* C6: a non-skipped result with an empty mapping aborts the run: the raw
\* reply is logged, the run's terminal event is error, and when that event is
\* handled every unit the run had merged a translation for still holds it
C6_EmptyMappingAbortsKeepingMerges ==
    [][/\ \A r \in RunIds :
            /\ (run[r].err = "" /\ run'[r].err = "decode")
               => (run'[r].rawLog /\ run'[r].pc = "abort"
                   /\ run'[r].merged = run[r].merged)
            /\ (run[r].err = "decode" /\ run[r].terms = 0 /\ run'[r].terms = 1)
               => run'[r].term = "error"
       /\ (work_q # <<>> /\ work_q' = Tail(work_q)
             /\ Head(work_q).kind = "error" /\ Head(work_q).msg = "decode")
          => \A i \in Head(work_q).hist.merged :
                \E k \in 1..Len(items') :
                   items'[k].index = i
                   /\ items'[k].tr = TextOf(Head(work_q).run)]_vars

\* C7: once a run is aborted it emits no merge event: the results of the
\* batches left in the pool are discarded
C7_NoMergeAfterAbort ==
    [][\A r \in RunIds :
          (run[r].err # "" /\ run'[r].pc # "dead")
          => /\ run'[r].merged = run[r].merged
             /\ run'[r].completed = run[r].completed
             /\ \A k \in (Len(work_q) + 1)..Len(work_q') :
                   ~(work_q'[k].kind = "update_translations"
                     /\ work_q'[k].run = r)]_vars

\* C7 witness: an aborted run has emitted its error event and leaves behind a
\* decoded, non-empty result that was never merged
C7_DecodedResultDiscarded ==
    \E r \in RunIds : \E b \in DOMAIN run[r].fut :
        /\ run[r].pc = "exit" /\ run[r].err # "" /\ run[r].terms = 1
        /\ ~run[r].fut[b].consumed
        /\ DOMAIN run[r].fut[b].mapping # {}
        /\ DOMAIN run[r].fut[b].mapping \cap run[r].merged = {}

\* C8: a batch that had not started its remote call when the run was aborted
\* never starts one
C8_NoCallStartsAfterAbort ==
    [][\A r \in RunIds : \A b \in DOMAIN run[r].fut \cap DOMAIN run'[r].fut :
          (run[r].pc = "abort" /\ run[r].fut[b].st = "queued")
          => (run'[r].fut[b].st # "inflight"
              /\ run'[r].fut[b].calls = run[r].fut[b].calls)]_vars

\* C9: a failed remote call aborts the run like an empty mapping: the run's
\* terminal event is error, nothing of the failed batch is merged, and when
\* the error event is handled every unit the run had merged a translation for
\* still holds it
C9_FailedCallAbortsKeepingMerges ==
    [][/\ \A r \in RunIds :
            /\ (run[r].err = "" /\ run'[r].err = "call")
               => (run'[r].pc = "abort" /\ run'[r].merged = run[r].merged
                   /\ \A k \in 1..Len(run'[r].batches[run'[r].bad]) :
                         run'[r].batches[run'[r].bad][k].index \notin run'[r].merged)
            /\ (run[r].err = "call" /\ run[r].terms = 0 /\ run'[r].terms = 1)
               => run'[r].term = "error"
       /\ (work_q # <<>> /\ work_q' = Tail(work_q)
             /\ Head(work_q).kind = "error" /\ Head(work_q).msg = "call")
          => \A i \in Head(work_q).hist.merged :
                \E k \in 1..Len(items') :
                   items'[k].index = i
                   /\ items'[k].tr = TextOf(Head(work_q).run)]_vars

\* C10: within one run each batch causes at most one remote call: exactly one
\* when its result is not skipped, none when it is; a batch is never retried
C10_AtMostOneCallPerBatch ==
    \A r \in RunIds : \A b \in DOMAIN run[r].fut :
        LET f == run[r].fut[b] IN
        /\ f.calls <= 1
        /\ f.st = "queued" => f.calls = 0
        /\ f.st = "inflight" => f.calls = 1
        /\ (f.st = "done" /\ ~f.skipped) => f.calls = 1
        /\ (f.st = "done" /\ f.skipped) => f.calls = 0

\* C10 witness: a run is through with a batch whose call failed (one call, no
\* retry) and a batch that was skipped (no call)
C10_FailedOnceAndSkipped ==
    \E r \in RunIds : \E b1, b2 \in DOMAIN run[r].fut :
        /\ run[r].pc = "exit" /\ run[r].err = "call"
        /\ run[r].bad = b1 /\ run[r].fut[b1].calls = 1
        /\ run[r].fut[b2].skipped /\ run[r].fut[b2].calls = 0

\* the units of the batches of a run, in batch order
RECURSIVE Flatten(_)
Flatten(batches) ==
    IF batches = <<>> THEN <<>> ELSE Head(batches) \o Flatten(Tail(batches))

\* C11: the driver plans batches of exactly the units whose translation is
\* empty or whitespace-only when it starts; if there is none it submits no
\* batch (so no remote call is made) and ends the run with done
C11_OnlyPendingUnitsSent ==
    [][\A r \in RunIds :
          (run[r].pc = "start" /\ run'[r].pc # "start")
          => LET sent == Flatten(run'[r].batches)
                 blank == {j \in 1..Len(items) : IsBlank(items[j].tr)}
             IN  /\ Len(sent) = Cardinality(blank)
                 /\ \A k \in 1..Len(sent) :
                       \E j \in blank : items[j].index = sent[k].index
                                        /\ items[j].src = sent[k].src
                 /\ Len(run'[r].fut) = Len(run'[r].batches)
                 /\ \A b \in 1..Len(run'[r].fut) : run'[r].fut[b].calls = 0
                 /\ blank = {}
                    => (run'[r].batches = <<>> /\ run'[r].fut = <<>>
                        /\ run'[r].pc = "exit"
                        /\ Len(work_q') = Len(work_q) + 1
                        /\ SubSeq(work_q', 1, Len(work_q)) = work_q
                        /\ work_q'[Len(work_q')].kind = "done"
                        /\ work_q'[Len(work_q')].run = r)]_vars

\* C11 witness: a run has planned its batches over a table that holds a
\* translated unit, a whitespace-only one and an empty one
C11_MixedTablePlanned ==
    \E r \in RunIds :
        /\ run[r].pc = "loop"
        /\ \E j1, j2, j3 \in 1..Len(items) :
              items[j1].tr = "done" /\ items[j2].tr = " " /\ items[j3].tr = ""
        /\ Len(Flatten(run[r].batches)) = 2

\* C12: the batches of a run are consecutive cuts of the pending units sorted
\* by index: every batch but the last has batch_size units, the last has
\* between 1 and batch_size, and the batches one after the other are exactly
\* the sorted pending units (17 pending cut by 5 gives 5, 5, 5, 2)
C12_PartitionIsConsecutiveCut ==
    /\ \A r \in RunIds :
          run[r].pc = "loop"
          => LET bt == run[r].batches
                 n == Len(bt)
                 pending == SortByIndex(SelectPending(items))
             IN  /\ n >= 1
                 /\ \A b \in 1..(n - 1) : Len(bt[b]) = run[r].batch_size
                 /\ Len(bt[n]) >= 1 /\ Len(bt[n]) <= run[r].batch_size
                 /\ Flatten(bt) = [k \in 1..Len(pending) |->
                                     [index |-> pending[k].index,
                                      src |-> pending[k].src]]
                 /\ \A k \in 1..(Len(Flatten(bt)) - 1) :
                       Flatten(bt)[k].index <= Flatten(bt)[k + 1].index
    /\ LET p17 == Partition([k \in 1..17 |-> k], 5)
       IN  [b \in 1..Len(p17) |-> Len(p17[b])] = <<5, 5, 5, 2>>

\* C12 witness: three pending units were cut by batch size 2 into a full batch
\* and a smaller last one
C12_FullBatchThenShortBatch ==
    \E r \in RunIds :
        /\ run[r].pc = "loop" /\ run[r].batch_size = 2
        /\ Len(run[r].batches) = 2
        /\ Len(run[r].batches[1]) = 2 /\ Len(run[r].batches[2]) = 1

\* what the driver's loop and the display thread make of the table its when
\* the results futs are consumed in ascending batch order, from batch b on
RECURSIVE Outcome(_, _, _)
Outcome(its, futs, b) ==
    IF b > Len(futs) THEN its
    ELSE IF futs[b].skipped THEN Outcome(its, futs, b + 1)
    ELSE IF futs[b].exc \/ DOMAIN futs[b].mapping = {} THEN its
    ELSE Outcome(ApplyToItems(its, futs[b].mapping), futs, b + 1)

\* the table after the display thread has handled the events of q
RECURSIVE ApplyQueue(_, _)
ApplyQueue(its, q) ==
    IF q = <<>> THEN its
    ELSE ApplyQueue(IF Head(q).kind = "update_translations"
                    THEN ApplyToItems(its, Head(q).mapping) ELSE its, Tail(q))

\* C13: for the batches of a run and the results their calls gave, the final
\* UnitSet is the same for every order of completion: when the run has emitted
\* its terminal event, the table the queued events lead to is the one that
\* consuming the same results in ascending batch order gives
C13_FinalUnitSetIndependentOfOrder ==
    \A r \in RunIds :
        run[r].pc = "exit"
        => ApplyQueue(items, work_q) = Outcome(StrayItems, run[r].fut, 1)

\* C15: handling a merge event changes the translation of no unit whose index
\* the request of that batch did not carry
C15_OnlyRequestedIndicesHonored ==
    [][(work_q # <<>> /\ work_q' = Tail(work_q)
          /\ Head(work_q).kind = "update_translations")
       => /\ \A k \in 1..Len(items) :
                items'[k].tr # items[k].tr
                => items[k].index \in Head(work_q).hist.sent
          /\ \A k \in 1..Len(tree) :
                tree'[k].Translation # tree[k].Translation
                => tree[k].Index \in Head(work_q).hist.sent]_vars

\* the table rows after the display thread has handled the events of q
RECURSIVE ApplyQueueToTree(_, _)
ApplyQueueToTree(rows, q) ==
    IF q = <<>> THEN rows
    ELSE ApplyQueueToTree(IF Head(q).kind = "update_translations"
                          THEN ApplyToTree(rows, Head(q).mapping) ELSE rows,
                          Tail(q))

\* C14: when the index sets of the mappings still to be applied are pairwise
\* non-overlapping, applying them in any permutation of their order gives the
\* same UnitSet (and the same table rows)
C14_MergeCommutes ==
    LET n == Len(work_q) IN
    (\A i, j \in 1..n :
        i # j => DOMAIN work_q[i].mapping \cap DOMAIN work_q[j].mapping = {})
    => \A p \in Permutations(1..n) :
          /\ ApplyQueue(items, [k \in 1..n |-> work_q[p[k]]])
                = ApplyQueue(items, work_q)
          /\ ApplyQueueToTree(tree, [k \in 1..n |-> work_q[p[k]]])
                = ApplyQueueToTree(tree, work_q)

\* C14 witness: one mapping has been applied and two more, with
\* non-overlapping index sets, are still to be applied
C14_TwoDisjointMappingsWaiting ==
    /\ polling
    /\ Len(work_q) = 2
    /\ DOMAIN work_q[1].mapping \cap DOMAIN work_q[2].mapping = {}
    /\ \E k \in 1..Len(items) : items[k].tr = MergeText(1)

\* C16: a run that has emitted its terminal event has no batch with a remote
\* call in flight and none still queued in the worker pool
C16_TerminalAfterAllBatchesResolved ==
    \A r \in RunIds :
        run[r].terms > 0
        => \A b \in DOMAIN run[r].fut : run[r].fut[b].st = "done"

\* C16 witness: an aborted run has emitted its error event; the call of a
\* batch the driver never looked at has returned an undecodable reply
C16_ErrorAfterLeftoverCallReturned ==
    \E r \in RunIds : \E b \in DOMAIN run[r].fut :
        /\ run[r].pc = "exit" /\ run[r].term = "error"
        /\ ~run[r].fut[b].consumed /\ run[r].fut[b].st = "done"
        /\ run[r].fut[b].calls = 1 /\ ~run[r].fut[b].exc
        /\ DOMAIN run[r].fut[b].mapping = {}

\* C17: events leave the queue at its head and enter at its tail, so they are
\* handled in the order they were produced; when the terminal event of a run
\* is handled no merge event of that run is left on the queue
C17_EventsHandledInOrder ==
    [][/\ \/ work_q' = work_q
          \/ work_q # <<>> /\ work_q' = Tail(work_q)
          \/ Len(work_q') > Len(work_q)
             /\ SubSeq(work_q', 1, Len(work_q)) = work_q
       /\ (work_q # <<>> /\ work_q' = Tail(work_q)
             /\ IsTerminal(Head(work_q)) /\ Head(work_q).run # 0)
          => \A k \in 1..Len(work_q') :
                ~(work_q'[k].kind = "update_translations"
                  /\ work_q'[k].run = Head(work_q).run)]_vars

\* C17 witness: the terminal event of a run has been handled (none of the
\* run's events is left on the queue) and a unit holds a translation the run
\* merged
C17_MergesAppliedThenTerminalHandled ==
    \E r \in RunIds :
        /\ run[r].terms = 1 /\ run[r].term = "done"
        /\ \A k \in 1..Len(work_q) : work_q[k].run # r
        /\ worker_thread = 0
        /\ \A k \in 1..Len(items) : items[k].tr = TextOf(r)

\* C19: in the loaded UnitSet every unit has an index different from every
\* other unit's index
C19_IndexesUnique ==
    \A j, k \in 1..Len(items) : j # k => items[j].index # items[k].index

\* C18: a translate request with a bad batch size or concurrency, missing
\* credentials or an empty guide starts no run, puts no event, and leaves the
\* UnitSet, the stop flag and the thread handle as they were
C18_RejectedRequestChangesNothing ==
    [][\A f \in InvalidForms :
          on_translate(f) =>
             UNCHANGED <<items, stop_flag, worker_thread, run, nruns, work_q>>]_vars

\* index, time and source text of every unit, in order
Structure(its) ==
    [k \in 1..Len(its) |->
        [index |-> its[k].index, time |-> its[k].time, src |-> its[k].src]]

\* C20: while the translation thread is alive no step changes the units, their
\* indices, times or source texts; only translations change
C20_StructureFixedWhileRunActive ==
    [][(worker_thread # 0 /\ is_alive(worker_thread)) =>
          Structure(items') = Structure(items)]_vars

\* ascending by index
IsSorted(its) == \A j, k \in 1..Len(its) : j < k => its[j].index <= its[k].index

\* C21 as stated: parsing a text of N well-formed SRT blocks returns N units
\* sorted ascending by index, each with a non-empty time range
C21_SrtParseReturnsSorted ==
    [][on_parse_to_table =>
          LET p == detect_and_parse_subtitles(input_text)
          IN  /\ Len(p) = Len(input_text)
              /\ IsSorted(p)
              /\ \A k \in 1..Len(p) : p[k].time # ""]_vars

\* C21: parsing a text of N well-formed SRT blocks returns N units in block
\* order, each with a non-empty time range and the block's number (its
\* position when it has none) as index; loading them into the table sorts
\* them ascending by index
C21_SrtParseKeepsBlockOrder ==
    [][on_parse_to_table =>
          LET text == input_text
              p == detect_and_parse_subtitles(text)
          IN  /\ Len(p) = Len(text)
              /\ \A k \in 1..Len(p) :
                    /\ p[k].time # ""
                    /\ p[k].index = IF text[k][1].k = "num" THEN text[k][1].n ELSE k
              /\ text # <<>> =>
                    /\ IsSorted(items')
                    /\ items' = SortByIndex(p)]_vars

\* a text whose first block is numbered above its second one was loaded
C21_DescendingBlocksLoaded ==
    /\ Len(input_text) >= 2
    /\ parse_srt(input_text)[1].index > parse_srt(input_text)[2].index
    /\ items = SortByIndex(parse_srt(input_text))
    /\ input_format = "srt"

\* C22: for a text in which every line is an integer, a tab, then text, the
\* tabular parser returns one unit per line, in input order, with the stated
\* integer as index and the text after the tab as source; these units,
\* sorted, are what the table holds after the parse when no line contains the
\* marker "-->" that sends the text to the SRT parser first
C22_TabIndicesAsStated ==
    [][on_parse_to_table =>
          LET lines == LinesOf(input_text)
              p == parse_tsv_like(input_text)
          IN  /\ Len(p) = Len(lines)
              /\ \A k \in 1..Len(p) :
                    /\ p[k].index = lines[k].n
                    /\ p[k].src = lines[k].s
              /\ (lines # <<>> /\ \A k \in 1..Len(lines) : ~lines[k].arrow) =>
                    /\ items' = SortByIndex(p)
                    /\ input_format' = "tsv"]_vars

\* lines numbered 3 and 1, in that order, were parsed as tabular text and
\* loaded
C22_DescendingLinesLoaded ==
    /\ Len(LinesOf(input_text)) = 2
    /\ LinesOf(input_text)[1].n = 3
    /\ LinesOf(input_text)[2].n = 1
    /\ input_format = "tsv"
    /\ Len(items) = 2
    /\ items[1].index = 1
    /\ items[2].index = 3

\* C23: for units with unique indices, decoding the reply that echoes
\* "index: source" for every line of the encoded units gives a mapping whose
\* keys are the units' indices and whose values are their source texts
C23_EchoRoundTrip ==
    [][TranslateEcho =>
          LET mapping == parse_model_output_text(EchoReplyText(build_user_payload_text(items)))
          IN  /\ DOMAIN mapping = {items[k].index : k \in 1..Len(items)}
              /\ \A k \in 1..Len(items) :
                    /\ mapping[items[k].index] = items[k].src
                    /\ items'[k].tr = items[k].src]_vars

\* two units, the one with the two-digit index having a colon inside its
\* source, got their sources back as translations
C23_ColonSourceEchoed ==
    /\ Len(items) = 2
    /\ items[2].index = CodecMaxIndex
    /\ \E k \in 2..Len(items[2].src) : items[2].src[k] = ":"
    /\ items[1].src # <<>>
    /\ \A k \in 1..2 : items[k].tr = items[k].src

\* C24: a run that finds no unit pending when it starts puts the log "nothing
\* to do" and right after it its done event, and ends there, with no batch
\* and no future
C24_NothingPendingEndsAtOnce ==
    [][\A r \in RunIds :
          (run[r].pc = "start" /\ run'[r].pc # "start" /\ SelectPending(items) = <<>>) =>
             /\ run'[r].pc = "exit"
             /\ run'[r].batches = <<>>
             /\ run'[r].fut = <<>>
             /\ run'[r].terms = 1
             /\ Len(work_q') = Len(work_q) + 1
             /\ SubSeq(work_q', 1, Len(work_q)) = work_q
             /\ LET e == work_q'[Len(work_q')]
                IN  e.kind = "done" /\ e.run = r /\ e.hist.prev = "nothing to do"]_vars

\* a run on a table whose units all have a translation has put its done
\* event after the log "nothing to do"
C24_TranslatedTableRunEnded ==
    \E r \in RunIds :
        /\ run[r].pc = "exit"
        /\ items # <<>>
        /\ \A k \in 1..Len(items) : ~IsBlank(items[k].tr)
        /\ work_q # <<>>
        /\ work_q[Len(work_q)].kind = "done"
        /\ work_q[Len(work_q)].hist.prev = "nothing to do"

\* C25: at every moment the remote calls in flight for a run are at most the
\* run's concurrency
C25_InFlightWithinConcurrency ==
    \A r \in RunIds : Cardinality(InFlight(r)) <= run[r].concurrency

\* a run of concurrency 1 has one call in flight and another batch waiting
\* for the worker
C25_BatchWaitsForWorker ==
    \E r \in RunIds :
        /\ run[r].concurrency = 1
        /\ Cardinality(InFlight(r)) = 1
        /\ Queued(r) # {}
        /\ ~stop_flag

\* the terminal event of run r has been put and handled, and a translate
\* request passes the check of the thread handle
Released(r) ==
    /\ run[r].terms > 0
    /\ \A k \in 1..Len(work_q) : ~(IsTerminal(work_q[k]) /\ work_q[k].run = r)
    /\ ~(worker_thread # 0 /\ is_alive(worker_thread))

\* C26: under fair scheduling and calls that end, every started run puts its
\* terminal event, the display thread handles it, and then a translate
\* request is no longer rejected as "already running"
C26_StartedRunEndsAndReleases ==
    \A r \in RunIds : (run[r].pc = "start") ~> Released(r)

\* a run has ended, its terminal event has been handled and the handle is
\* cleared
C26_RunOverHandleCleared ==
    \E r \in RunIds :
        /\ run[r].pc = "dead"
        /\ Released(r)
        /\ worker_thread = 0
        /\ ~polling

\* batches of run r whose merge event the run has put: all their units are
\* among the units of the merges emitted
MergedBatches(r) ==
    {b \in 1..Len(run[r].batches) :
        \A k \in 1..Len(run[r].batches[b]) : run[r].batches[b][k].index \in run[r].merged}

\* C27: the progress counter of a run is the number of batches whose merge
\* event the run has put: 0 at the start, one more with each merge event and
\* only then, no skipped batch among those counted, never above the number
\* of batches, and equal to it when the run puts done with no batch skipped;
\* a batch is skipped only while the stop flag is set, so none is when no
\* stop was requested
C27_ProgressCountsMergedBatches ==
    /\ [](\A r \in RunIds :
            /\ run[r].completed = Cardinality(MergedBatches(r))
            /\ run[r].completed <= Len(run[r].batches)
            /\ run[r].pc = "start" => run[r].completed = 0
            /\ \A b \in 1..Len(run[r].fut) :
                  run[r].fut[b].skipped => b \notin MergedBatches(r))
    /\ [][\A r \in RunIds :
            LET merge == /\ Len(work_q') = Len(work_q) + 1
                         /\ work_q'[Len(work_q')].kind = "update_translations"
                         /\ work_q'[Len(work_q')].run = r
                         /\ DOMAIN work_q'[Len(work_q')].mapping # {}
            IN  /\ run'[r].pc # "dead" =>
                      /\ run'[r].completed \in {run[r].completed, run[r].completed + 1}
                      /\ run'[r].completed = run[r].completed + 1 <=> merge
                /\ (run[r].pc # "exit" /\ run'[r].pc = "exit" /\ run'[r].term = "done"
                        /\ \A b \in 1..Len(run'[r].fut) : ~run'[r].fut[b].skipped) =>
                      run'[r].completed = Len(run'[r].batches)
                /\ \A b \in 1..Len(run[r].fut) :
                      (run'[r].pc # "dead" /\ ~run[r].fut[b].skipped
                       /\ run'[r].fut[b].skipped) => stop_flag]_vars

\* a stopped run ended with done having merged one of its two batches and
\* skipped the other
C27_OneMergedOneSkipped ==
    \E r \in RunIds :
        /\ run[r].pc = "exit"
        /\ run[r].term = "done"
        /\ Len(run[r].batches) = 2
        /\ run[r].completed = 1
        /\ \E b \in 1..2 : run[r].fut[b].skipped

\* C28: handling a merge event changes the translation of no unit other than
\* those whose index is a key of the mapping, gives every key that is an
\* index of the UnitSet its text on a unit of that index, adds and removes
\* no unit, and leaves index, time and source text of every unit as they were
C28_MergeTouchesOnlyKeyedTranslations ==
    [][(work_q # <<>> /\ Head(work_q).kind = "update_translations"
           /\ work_q' = Tail(work_q)) =>
          LET m == Head(work_q).mapping
          IN  /\ Structure(items') = Structure(items)
              /\ \A k \in 1..Len(items) :
                    \/ items'[k].tr = items[k].tr
                    \/ /\ items[k].index \in DOMAIN m
                       /\ items'[k].tr = m[items[k].index]
              /\ \A i \in DOMAIN m :
                    (\E k \in 1..Len(items) : items[k].index = i) =>
                       \E k \in 1..Len(items') :
                          items'[k].index = i /\ items'[k].tr = m[i]]_vars

\* on the table where two units carry the index 1 and no unit the index 2,
\* the first mapping was merged: it changed unit 3 and nothing else
C28_MergedIntoTableWithoutIndexTwo ==
    /\ Len(items) = 3
    /\ items[1].index = 1 /\ items[2].index = 1
    /\ items[1].tr = "" /\ items[2].tr = ""
    /\ items[3].tr = MergeText(1)
    /\ polling

\* C29: a parse that extracts no unit leaves the UnitSet, the table and the
\* format tag as they were; a parse that extracts units makes the UnitSet
\* exactly those units, none translated, in ascending order of index, and
\* sets the format tag
C29_ParseReplacesOrKeeps ==
    [][on_parse_to_table =>
          LET p == detect_and_parse_subtitles(input_text)
          IN  IF p = <<>>
              THEN UNCHANGED <<items, tree, input_format>>
              ELSE /\ IsSorted(items')
                   /\ Len(items') = Len(p)
                   /\ \E f \in Permutations(1..Len(p)) :
                         \A k \in 1..Len(p) : items'[k] = p[f[k]]
                   /\ \A k \in 1..Len(items') : items'[k].tr = ""
                   /\ input_format' \in {"srt", "tsv"}
                   /\ input_format' = "srt" <=> p = parse_srt(input_text)]_vars

\* the SRT file with blocks numbered 2 and 1 has replaced the three units
\* loaded before, the translated one included
C29_SrtFileReplacedTable ==
    /\ input_format = "srt"
    /\ Len(items) = 2
    /\ items[1].index = 1 /\ items[1].src = "World"
    /\ items[2].index = 2 /\ items[2].src = "Hello"

\* C30: the tabular parser gives a line without explicit index its 1-based
\* position among the non-empty lines, whether or not the lines before it
\* carried an explicit index, and the lines Hello, World get 1 and 2
C30_UnlabeledLineGetsItsPosition ==
    /\ [][on_parse_to_table =>
             LET lines == LinesOf(input_text)
                 p == parse_tsv_like(input_text)
             IN  /\ Len(p) = Len(lines)
                 /\ \A k \in 1..Len(lines) :
                       lines[k].k # "tab" => p[k].index = k]_vars
    /\ [](LET p == parse_tsv_like(LoadedText)
          IN  Len(p) = 2 /\ p[1].index = 1 /\ p[2].index = 2)

\* the line "1<TAB>A" and after it the unlabeled line Hello were loaded: Hello
\* has the index 2
C30_UnlabeledAfterLabeledLoaded ==
    /\ LinesOf(input_text) = <<TabLine(1, "A"), TextLine("Hello")>>
    /\ input_format = "tsv"
    /\ Len(items) = 2
    /\ items[1].index = 1 /\ items[1].src = "A"
    /\ items[2].index = 2 /\ items[2].src = "Hello"

\* a line containing "-->" is among the first two lines after the optional
\* index line of the block
HasTimeLine(lines) ==
    LET first == IF lines # <<>> /\ lines[1].k = "num" THEN 2 ELSE 1
    IN  \E i \in {first, first + 1} : i <= Len(lines) /\ lines[i].arrow

\* C31: in SRT parsing a block without a time-range line among the first two
\* lines after its optional index line adds no unit, and an accepted block
\* without index line gets 1 plus the number of units accepted before it
C31_DiscardedBlocksConsumeNoNumber ==
    [][on_parse_to_table =>
          /\ \A k \in 1..Len(input_text) :
                LET before == parse_srt(SubSeq(input_text, 1, k - 1))
                    after == parse_srt(SubSeq(input_text, 1, k))
                    lines == input_text[k]
                IN  /\ ~HasTimeLine(lines) => after = before
                    /\ (after # before /\ lines[1].k # "num")
                          => /\ Len(after) = Len(before) + 1
                             /\ SubSeq(after, 1, Len(before)) = before
                             /\ after[Len(after)].index = Len(before) + 1
          /\ detected_format(input_text) = "srt"
                => items' = SortByIndex(parse_srt(input_text))]_vars

\* a block of two text lines followed by a block of a time line and a text
\* line was loaded: the only unit has the index 1
C31_UnindexedBlockAfterDiscardedLoaded ==
    /\ input_text = << <<TextLine("Hello"), TextLine("Hello")>>,
                      <<TimeLine, TextLine("Hello")>> >>
    /\ input_format = "srt"
    /\ items = << [index |-> 1, time |-> TimeLine.line, src |-> "Hello", tr |-> ""] >>

C33_ManualEditsSyncedBeforeSelection ==
    /\ [][nruns' = nruns + 1 =>
              \A k \in 1..Len(items) : items'[k].tr = tree[k].Translation]_vars
    /\ [][\A r \in RunIds :
              (run[r].pc = "start" /\ run'[r].pc # "start")
              => \A i \in 1..(PlanUnits + 1) :
                    Cardinality({k \in 1..Len(Flatten(run'[r].batches)) :
                                    Flatten(run'[r].batches)[k].index = i})
                    = Cardinality({j \in 1..Len(items) :
                                      items[j].index = i /\ IsBlank(items[j].tr)})]_vars

\* C34: a run that emits its terminal event while the stop flag set by a stop
\* request is up has put the log that the completed batches are kept right
\* before it, whether it ends after the last batch or by an abort
C34_StoppedRunLogsRetention ==
    [][\A r \in RunIds :
          (stop_flag /\ run[r].terms = 0 /\ run'[r].terms = 1)
          => /\ Len(work_q') = Len(work_q) + 1
             /\ IsTerminal(work_q'[Len(work_q')])
             /\ work_q'[Len(work_q')].hist.log = "stopped, completed batches kept"]_vars

\* C35: the stop flag set by a stop request is not cleared while a run that
\* has not emitted its terminal event still has batches that have not started
C35_StopFlagKeptWhileBatchesWait ==
    [][(stop_flag /\ ~stop_flag')
          => \A r \in RunIds :
                ~(is_alive(r) /\ run[r].terms = 0 /\ Queued(r) # {})]_vars

\* C36: the run-active handle is released, and with it the stop flag
\* cleared, only by handling the terminal event of the run the handle names:
\* the error event of a test-connection request or the terminal event of an
\* earlier run leaves the handle of the running run in place
C36_HandleReleasedByOwnTerminalEvent ==
    [][(worker_thread # 0 /\ worker_thread' = 0)
          => /\ work_q # <<>>
             /\ IsTerminal(Head(work_q))
             /\ Head(work_q).run = worker_thread]_vars

\* C37: whenever a run has not yet emitted its terminal event, the handle
\* on_stop tests names a live thread, so a stop request sets the stop flag;
\* a stop request made while no run thread is alive leaves the flag as it is
C37_StopSetsFlagExactlyWhileRunActive ==
    /\ [](\A r \in RunIds :
             (is_alive(r) /\ run[r].terms = 0)
             => (worker_thread # 0 /\ is_alive(worker_thread)))
    /\ [][(on_stop /\ \A r \in RunIds : ~is_alive(r))
             => stop_flag' = stop_flag]_vars

\* C38: when a run takes its snapshot of the pending units, no merge event
\* of another run is waiting in work_q and no other run can still emit one,
\* so every translation an earlier run returned is in the UnitSet
C38_EarlierMergesAppliedAtSnapshot ==
    [][\A r \in RunIds :
          (run[r].pc = "start" /\ run'[r].pc # "start")
          => /\ \A k \in 1..Len(work_q) : work_q[k].kind # "update_translations"
             /\ \A r2 \in RunIds \ {r} : ~(is_alive(r2) /\ run[r2].terms = 0)]_vars

\* C39 as claimed: when the done event of a run during which no stop was
\* requested is handled, every unit that was pending at the run's start has
\* a non-empty translation
C39_DoneMeansAllTranslated ==
    [][(work_q # <<>> /\ Head(work_q).kind = "done" /\ ~stop_flag
        /\ work_q' = Tail(work_q))
          => \A k \in 1..Len(items) : ~IsBlank(items'[k].tr)]_vars

\* C39 amended: a run that ends with done with no batch skipped has taken
\* the result of every batch, every reply decoded to a non-empty mapping, and
\* that mapping was put as a merge event before done; a batch is skipped only
\* while the stop flag is set, so this is the case whenever no stop was
\* requested; when done is handled no merge event of the run is left in
\* work_q
C39_DoneMeansEveryBatchMerged ==
    /\ [][\A r \in RunIds :
              (run[r].terms = 0 /\ run'[r].terms = 1 /\ run'[r].term = "done"
               /\ run[r].pc = "loop"
               /\ \A b \in 1..Len(run[r].fut) : ~run[r].fut[b].skipped)
              => \A b \in 1..Len(run[r].batches) :
                    /\ run[r].fut[b].consumed
                    /\ run[r].fut[b].calls = 1
                    /\ DOMAIN run[r].fut[b].mapping # {}
                    /\ DOMAIN run[r].fut[b].mapping \subseteq run[r].merged]_vars
    /\ [][\A r \in RunIds :
              (run[r].pc = "loop" /\ run'[r].pc = "loop"
               /\ \E b \in 1..Len(run[r].fut) :
                     ~run[r].fut[b].skipped /\ run'[r].fut[b].skipped)
              => stop_flag]_vars
    /\ [][(work_q # <<>> /\ Head(work_q).kind = "done" /\ work_q' = Tail(work_q))
              => \A k \in 1..Len(work_q') :
                    ~(work_q'[k].kind = "update_translations"
                      /\ work_q'[k].run = Head(work_q).run)]_vars

\* the done event of a run of one batch of two units was handled, no stop was
\* requested, and the reply named unit 1 only: unit 2 has no translation
C39_DoneWithUntranslatedUnit ==
    /\ run[1].term = "done"
    /\ worker_thread = 0
    /\ work_q = <<>>
    /\ ~stop_flag
    /\ items[1].tr = TextOf(1)
    /\ items[2].tr = ""

\* C40: the proxy history never holds more than 50 entries, its entries are
\* the most recently added ones with the newest first (each entry was added
\* right before the one above it), an add puts the new entry first and drops
\* from the end, and a status update keeps order and length
C40_HistoryKeepsNewestFifty ==
    /\ [](/\ Len(proxy_history) <= HistoryCap
          /\ \A k \in 1..(Len(proxy_history) - 1) :
                proxy_history[k].time = proxy_history[k + 1].time + 1)
    /\ [][(\E http \in ProxyHosts : add_to_history(http))
             => /\ proxy_history'[1].time = Now
                /\ Len(proxy_history') = Min(Len(proxy_history) + 1, HistoryCap)
                /\ \A k \in 2..Len(proxy_history') :
                      proxy_history'[k] = proxy_history[k - 1]]_vars
    /\ [][(\E http \in ProxyHosts, res \in TestResults :
               update_history_status(http, res))
             => /\ Len(proxy_history') = Len(proxy_history)
                /\ \A k \in 1..Len(proxy_history) :
                      /\ proxy_history'[k].time = proxy_history[k].time
                      /\ proxy_history'[k].http = proxy_history[k].http]_vars

\* 52 proxies were added: the history holds the 50 newest, the first two
\* were dropped, and an entry below the top was tested
C40_FullHistoryAfterOverflow ==
    /\ Len(proxy_history) = HistoryCap
    /\ proxy_history[1].time = HistoryCap + 2
    /\ proxy_history[HistoryCap].time = 3
    /\ \E k \in 2..HistoryCap : proxy_history[k].status = "OK"

====
